---------------------------- MODULE Spec2Model ----------------------------
(***************************************************************************)
(* A model of the HTTPS gateway: the certificate aggregator and the store  *)
(* it publishes into, the TLS certificate resolver, the hostname resolver  *)
(* (alias, canonical <id>.<domain>, custom domain) and the task lifecycle  *)
(* of main.                                                                *)
(*                                                                         *)
(* An FQDN is the sequence of its labels, leftmost first; a label is the   *)
(* sequence of its characters.  An Option<T> is a sequence of length 0     *)
(* (None) or 1 (Some).  A Result<T, E> is a record with an ok flag.        *)
(***************************************************************************)
EXTENDS Integers, Sequences, FiniteSets, TLC

VARIABLES
    domains,      \* CanisterResolver.domains: the serving domains, in order
    aliases_in,   \* the --alias options handed to CanisterResolver::new
    storage,      \* the reference held by the certificate store (None before the first publish)
    host,         \* the authority of the request being resolved
    resolved,     \* Option: the outcome of the last resolve_canister(host)
    token,        \* the CancellationToken: TRUE once cancelled
    aggpc,        \* Aggregator::run: "select", "fetching" or "returned"
    agg_result,   \* Option: the value Aggregator::run returned
    agg_log,      \* the last round's log line: "", "fetch_err", "store_err" or "stored"
    provRes,      \* per provider, Option [input, res]: the answer of this round's get_certificates()
    round,        \* the number of ticks taken
    nstore,       \* the number of calls of storage.store
    reader,       \* Option: the reference a reader of the store has loaded
    servers,      \* the HTTP servers that have not returned
    mainpc,       \* main: "running", "stopping", "stopped" or "done"
    acme_cfg,     \* whether setup built an ACME resolver
    stapler_cfg,  \* whether AggregatingResolver has a stapler
    hello,        \* Option: the ClientHello last resolved
    tls_out,      \* Option [store, acme, out]: what the two resolvers answered for it
                  \* and what AggregatingResolver::resolve returned
    done,         \* the providers whose call has completed in this round, in completion order
    last_fetch,   \* Option [answers, list]: when the fetch() of the last finished round
                  \* succeeded, what the providers answered in it and the list it returned
    cli,          \* the command line main was given
    tasks,        \* the names registered with TaskManager::add
    spawned,      \* the tasks TaskManager::start has spawned
    main_result,  \* Option: the value main returned
    mwpc,         \* request_id::middleware: "idle", "inner" (in next.run) or "returned"
    request_id,   \* Option: the Uuid the middleware generated
    received,     \* the request as the client sent it
    request,      \* the request the middleware holds and hands to next.run
    inner_response, \* Option: the response as next.run returned it
    response,     \* Option: the response the middleware returned
    cause,        \* the ErrorCause at hand
    err_out,      \* Option [op, out]: the last ErrorCause method applied and its result
    dir_in,       \* the directory the Dir provider is given
    dir_out,      \* Option: what dir::Provider::get_certificates returned for it
    wv_in,        \* WithVerify(importer, verifier): what the importer returns and the
                  \* package names the verifier rejects
    wvpc,         \* WithVerify::import: "start", "verify" (in the loop) or "done"
    imports,      \* the number of calls made to the inner importer
    verified,     \* the packages handed to the verifier, in call order
    wv_out,       \* Option: what WithVerify::import returned
    rl_cfg,       \* the arguments of RateLimitMiddlewareBuilder::build: [rps, burst_size]
    clock,        \* the clock of the rate limiter, in ticks since it was built
    tat,          \* the limiter's state: for each key, Option of its theoretical
                  \* arrival time
    rl_sent,      \* the requests answered so far: [at, conn, status] in order
    auth_req,     \* the request given to extract_authority: [authority, host_header]
    auth_out,     \* Option: what extract_authority returned for it
    ar_in,        \* an AggregatingResolver and a ClientHello: what each of `resolvers`
                  \* answers for it, Option of what the Rustls resolver answers, and
                  \* whether a stapler is set
    arpc,         \* AggregatingResolver::resolve: "find_map", "map" or "done"
    ar_calls,     \* the calls resolve has made, in order
    ar_x,         \* Option: the certificate found
    ar_out        \* Option: what resolve returned

resolver_vars == <<domains, aliases_in, host, resolved>>
agg_vars == <<aggpc, agg_result, agg_log, provRes, round, nstore, done, last_fetch>>
main_vars == <<token, servers, mainpc>>
tls_vars == <<acme_cfg, stapler_cfg, hello, tls_out>>
start_vars == <<cli, tasks, spawned, main_result>>
mw_vars == <<mwpc, request_id, received, request, inner_response, response>>
err_vars == <<cause, err_out>>
dir_vars == <<dir_in, dir_out>>
wv_vars == <<wv_in, wvpc, imports, verified, wv_out>>
rl_vars == <<rl_cfg, clock, tat, rl_sent>>
auth_vars == <<auth_req, auth_out>>
ar_vars == <<ar_in, arpc, ar_calls, ar_x, ar_out>>
unit_vars == <<wv_vars, rl_vars, auth_vars, ar_vars>>
aux_vars == <<start_vars, mw_vars, err_vars, dir_vars, unit_vars>>

vars == <<resolver_vars, storage, agg_vars, main_vars, reader, tls_vars, aux_vars>>

---------------------------------------------------------------------------
(* Bounds *)

\* The longest host name, in labels, that is resolved.
MaxLabels == 4

\* The number of aggregator rounds (ticks) explored.
MaxRounds == 2

---------------------------------------------------------------------------
(* Options *)

None == <<>>
Some(x) == <<x>>
IsSome(o) == o # <<>>
Unwrap(o) == o[1]

Min(S) == CHOOSE x \in S : \A y \in S : x <= y

Last(s) == s[Len(s)]

---------------------------------------------------------------------------
(* Labels, hosts, principals *)

LIo == <<"i", "o">>
LIc == <<"i", "c">>
LNs == <<"n", "s">>
LRaw == <<"r", "a", "w">>
LId == <<"a", "-", "a">>
LFooId == <<"f", "-", "-", "a", "-", "a">>
LStar == <<"*">>

\* The labels request hosts are built from.
HostLabels == {LIo, LIc, LNs, LRaw, LId, LFooId}

RECURSIVE SeqsUpTo(_, _)
SeqsUpTo(S, n) ==
    IF n = 0 THEN {<<>>}
    ELSE LET shorter == SeqsUpTo(S, n - 1)
         IN  shorter \cup {Append(s, x) : s \in shorter, x \in S}

\* Every non-root FQDN of at most MaxLabels labels.
Hosts == SeqsUpTo(HostLabels, MaxLabels) \ {<<>>}

\* Principal::from_text: the texts that decode to a principal, and the principal each gives.
PrincipalTexts == {LId}

from_text(text) ==
    IF text \in PrincipalTexts THEN Some("p1") ELSE None

\* str::split("--"): the pieces between the non-overlapping matches of "--", found left to right.
RECURSIVE split_acc(_, _)
split_acc(s, cur) ==
    IF s = <<>> THEN <<cur>>
    ELSE IF Len(s) >= 2 /\ s[1] = "-" /\ s[2] = "-"
         THEN <<cur>> \o split_acc(SubSeq(s, 3, Len(s)), <<>>)
         ELSE split_acc(Tail(s), Append(cur, s[1]))

split(s) == split_acc(s, <<>>)

\* Fqdn::is_subdomain_of: parent's labels end h's labels (h is its own subdomain).
is_subdomain_of(h, parent) ==
    /\ Len(parent) <= Len(h)
    /\ SubSeq(h, Len(h) - Len(parent) + 1, Len(h)) = parent

---------------------------------------------------------------------------
(* The certificate store, as sections 3 and 4.2 of the specification       *)
(* describe it.                                                            *)

\* A certificate record: [san: Seq(FQDN), cert: key id, custom: Option [name, canister_id]].

\* The index of the first record of the list that carries SAN key k.
FirstWith(records, k) ==
    Min({i \in DOMAIN records : \E j \in DOMAIN records[i].san : records[i].san[j] = k})

SanKeys(records) ==
    UNION {{records[i].san[j] : j \in DOMAIN records[i].san} : i \in DOMAIN records}

\* The by-SAN index: each SAN key maps to the first record, in list order, that carries it.
build_certs(records) ==
    [k \in SanKeys(records) |-> records[FirstWith(records, k)].cert]

CustomNames(records) ==
    {Unwrap(records[i].custom).name : i \in {j \in DOMAIN records : IsSome(records[j].custom)}}

\* The by-custom-hostname index, built from the custom field of the same records.
build_canisters(records) ==
    [n \in CustomNames(records) |->
        LET i == Min({j \in DOMAIN records :
                        IsSome(records[j].custom) /\ Unwrap(records[j].custom).name = n})
        IN  Unwrap(records[i].custom).canister_id]

\* The two indices one store() builds; records is kept to say which list they came from.
StorageInner(records) ==
    [records |-> records,
     certs |-> build_certs(records),
     canisters |-> build_canisters(records)]

\* A store that accepts every list, the empty one included.
store_result_any(records) == [ok |-> TRUE]

\* store(records): an empty list is rejected; otherwise the reference is replaced.
store_result(records) ==
    IF records = <<>> THEN [ok |-> FALSE] ELSE [ok |-> TRUE]

\* A store that swaps the two indices one at a time: the by-SAN index is replaced, the
\* by-custom-hostname index is still the previous one.
store_torn(old, records) ==
    IF records = <<>> THEN old
    ELSE Some([records |-> records,
               certs |-> build_certs(records),
               canisters |-> IF IsSome(old) THEN Unwrap(old).canisters
                             ELSE build_canisters(<<>>)])

store(old, records) ==
    IF store_result(records).ok THEN Some(StorageInner(records)) ELSE old

\* A lookup that falls back to the wildcard entry of the name without its leftmost label.
lookup_custom_domain_wildcard(st, h) ==
    IF ~IsSome(st) \/ h = <<>> THEN None
    ELSE LET t == Unwrap(st).canisters
             wild == <<LStar>> \o Tail(h)
         IN  IF h \in DOMAIN t THEN Some(t[h])
             ELSE IF wild \in DOMAIN t THEN Some(t[wild])
             ELSE None

\* lookup_custom_domain: direct map lookup in the current reference.
lookup_custom_domain(st, h) ==
    IF IsSome(st) /\ h \in DOMAIN Unwrap(st).canisters
    THEN Some(Unwrap(st).canisters[h])
    ELSE None

\* lookup_sni: exact SAN first, then the wildcard of the name without its leftmost label.
lookup_sni(st, sni) ==
    IF ~IsSome(st) \/ sni = <<>> THEN None
    ELSE LET certs == Unwrap(st).certs
             wild == <<LStar>> \o Tail(sni)
         IN  IF sni \in DOMAIN certs THEN Some(certs[sni])
             ELSE IF wild \in DOMAIN certs THEN Some(certs[wild])
             ELSE None

---------------------------------------------------------------------------
(* The hostname resolver (routing/canister.rs) *)

\* An alias table whose entries name the alias FQDN, not the serving domain, as domain.
new_aliases_fqdn(al, ds) ==
    [k \in 1..(Len(al) * Len(ds)) |->
        LET a == al[((k - 1) \div Len(ds)) + 1]
            d == ds[((k - 1) % Len(ds)) + 1]
        IN  <<a.name \o d, [id |-> a.id, domain |-> a.name \o d, verify |-> TRUE]>>]

\* An alias table that joins every alias with the first serving domain only.
new_aliases_first_domain(al, ds) ==
    [k \in 1..Len(al) |->
        <<al[k].name \o ds[1], [id |-> al[k].id, domain |-> ds[1], verify |-> TRUE]>>]

\* CanisterResolver::new: every alias joined with every serving domain, aliases outermost.
new_aliases(al, ds) ==
    [k \in 1..(Len(al) * Len(ds)) |->
        LET a == al[((k - 1) \div Len(ds)) + 1]
            d == ds[((k - 1) % Len(ds)) + 1]
        IN  <<a.name \o d, [id |-> a.id, domain |-> d, verify |-> TRUE]>>]

\* A resolve_alias that prefers the matching entry with the longest alias FQDN.
resolve_alias_longest(aliases, h) ==
    LET m == {k \in DOMAIN aliases : is_subdomain_of(h, aliases[k][1])}
        longest == {k \in m : \A j \in m : Len(aliases[j][1]) <= Len(aliases[k][1])}
    IN  IF m = {} THEN None ELSE Some(aliases[Min(longest)][2])

\* resolve_alias: the first alias entry the host is a subdomain of.
resolve_alias(aliases, h) ==
    LET m == {k \in DOMAIN aliases : is_subdomain_of(h, aliases[k][1])}
    IN  IF m = {} THEN None ELSE Some(aliases[Min(m)][2])

\* A serving-domain test that accepts every subdomain of a serving domain.
domain_known_subdomain(ds, domain) == \E i \in DOMAIN ds : is_subdomain_of(domain, ds[i])

\* The serving-domain test of resolve_domain.
domain_known(ds, domain) == \E i \in DOMAIN ds : ds[i] = domain

\* A resolve_domain that consumes `raw` but asks for verification all the same.
resolve_domain_verify_always(ds, h) ==
    IF h = <<>> THEN None
    ELSE LET id == from_text(Last(split(h[1])))
             labels == Tail(h)
             is_raw == labels # <<>> /\ labels[1] = LRaw
             domain == IF is_raw THEN Tail(labels) ELSE labels
         IN  IF ~IsSome(id) THEN None
             ELSE IF ~domain_known(ds, domain) THEN None
             ELSE Some([id |-> Unwrap(id), domain |-> domain, verify |-> TRUE])

\* resolve_domain: <id>.<domain> or <id>.raw.<domain>.
resolve_domain(ds, h) ==
    IF h = <<>> THEN None
    ELSE LET canister == Last(split(h[1]))
             id == from_text(canister)
             labels == Tail(h)
             is_raw == labels # <<>> /\ labels[1] = LRaw
             verify == ~is_raw
             domain == IF is_raw THEN Tail(labels) ELSE labels
         IN  IF ~IsSome(id) THEN None
             ELSE IF ~domain_known(ds, domain) THEN None
             ELSE Some([id |-> Unwrap(id), domain |-> domain, verify |-> verify])

\* The custom-domain branch of resolve_canister.
resolve_custom(st, h) ==
    LET id == lookup_custom_domain(st, h)
    IN  IF ~IsSome(id) THEN None
        ELSE Some([id |-> Unwrap(id), domain |-> h, verify |-> TRUE])

or_else(a, b) == IF IsSome(a) THEN a ELSE b

\* A resolve_canister that looks the host up in the custom-domain table first.
resolve_canister_custom_first(aliases, ds, st, h) ==
    or_else(resolve_custom(st, h),
            or_else(resolve_alias(aliases, h), resolve_domain(ds, h)))

\* A resolve_canister that tries the canonical form before the aliases.
resolve_canister_domain_first(aliases, ds, st, h) ==
    or_else(resolve_domain(ds, h),
            or_else(resolve_alias(aliases, h), resolve_custom(st, h)))

\* resolve_canister: alias, then canonical form, then custom domain.
resolve_canister(aliases, ds, st, h) ==
    or_else(resolve_alias(aliases, h),
            or_else(resolve_domain(ds, h), resolve_custom(st, h)))

---------------------------------------------------------------------------
(* Configurations and inputs *)

D1 == <<LIc, LIo>>
D2 == <<LIo>>
D3 == <<LNs, LIc, LIo>>
DRaw == <<LRaw, LIo>>

ANs == [name |-> <<LNs>>, id |-> "p2"]
AId == [name |-> <<LId>>, id |-> "p3"]

\* The configurations explored: a deduplicated, non-empty serving-domain list and the
\* parsed --alias options.
Configs ==
    {[domains |-> <<D1>>, aliases |-> <<>>],
     [domains |-> <<D1, D2>>, aliases |-> <<ANs, AId>>],
     [domains |-> <<D1, D3>>, aliases |-> <<ANs>>],
     [domains |-> <<D2, D1>>, aliases |-> <<AId, ANs>>],
     [domains |-> <<DRaw, D2>>, aliases |-> <<>>]}

\* Record lists a provider round can hand to store().
RCustom(n, k) ==
    [san |-> <<n>>, cert |-> k, custom |-> Some([name |-> n, canister_id |-> "p4"])]

StoreRecordLists ==
    {<<[san |-> <<<<LStar, LIo>>, <<LRaw, LNs>>>>, cert |-> "k1",
        custom |-> Some([name |-> <<LRaw, LNs>>, canister_id |-> "p4"])],
       [san |-> <<<<LStar, LIo>>>>, cert |-> "k5",
        custom |-> Some([name |-> <<LStar, LIo>>, canister_id |-> "p5"])]>>,
     <<RCustom(<<LNs, LIc, LIo>>, "k1"), RCustom(<<LId, LIc, LIo>>, "k2"),
       [san |-> <<<<LNs, LIc, LIo>>>>, cert |-> "k3", custom |-> None]>>}

---------------------------------------------------------------------------
(* Certificate providers (tls/cert/mod.rs, providers/dir.rs,               *)
(* providers/issuer/mod.rs)                                                *)

Ok(v) == [ok |-> TRUE, v |-> v]
Err(e) == [ok |-> FALSE, e |-> e]

\* A PEM pair is [valid, san, cn, key]: whether key and chain parse, and the SANs, the
\* commonName and the key material of the first certificate of the chain.
pem_convert_to_rustls(pair) ==
    IF ~pair.valid THEN Err("parse")
    ELSE IF pair.san = <<>> THEN Err("no_san")
    ELSE Ok([san |-> pair.san, cert |-> pair.key, custom |-> None])

\* str::to_ascii_lowercase on the file extensions of the model.
to_ascii_lowercase(x) ==
    CASE x = "PEM" -> "pem"
      [] x = "Pem" -> "pem"
      [] x = "KEY" -> "key"
      [] OTHER -> x

eq_ignore_ascii_case(x, y) == to_ascii_lowercase(x) = to_ascii_lowercase(y)

\* A directory entry is [is_file, ext, readable, key_readable, pair]: whether it is a
\* regular file, its extension if it has one, whether it and its sibling <stem>.key can
\* be read, and the PEM pair the two files hold.

\* The loop of dir::Provider::get_certificates over the directory entries.
RECURSIVE dir_scan(_, _)
dir_scan(entries, certs) ==
    IF entries = <<>> THEN Ok(certs)
    ELSE LET v == Head(entries)
             cert == pem_convert_to_rustls(v.pair)
         IN  IF ~v.is_file THEN dir_scan(Tail(entries), certs)
             ELSE IF ~(IsSome(v.ext) /\ eq_ignore_ascii_case(Unwrap(v.ext), "pem"))
                  THEN dir_scan(Tail(entries), certs)
             ELSE IF ~v.readable THEN Err("chain")
             ELSE IF ~v.key_readable THEN Err("key")
             ELSE IF ~cert.ok THEN Err("pair")
             ELSE dir_scan(Tail(entries), Append(certs, cert.v))

\* A scan that leaves out the pairs it cannot load.
RECURSIVE dir_scan_partial(_, _)
dir_scan_partial(entries, certs) ==
    IF entries = <<>> THEN Ok(certs)
    ELSE LET v == Head(entries)
             cert == pem_convert_to_rustls(v.pair)
         IN  IF /\ v.is_file
                /\ IsSome(v.ext) /\ eq_ignore_ascii_case(Unwrap(v.ext), "pem")
                /\ v.readable /\ v.key_readable /\ cert.ok
             THEN dir_scan_partial(Tail(entries), Append(certs, cert.v))
             ELSE dir_scan_partial(Tail(entries), certs)

dir_get_certificates_partial(d) ==
    IF ~d.readable THEN Err("read_dir") ELSE dir_scan_partial(d.entries, <<>>)

\* dir::Provider::get_certificates on a directory [readable, entries].
dir_get_certificates(dir) ==
    IF ~dir.readable THEN Err("read_dir") ELSE dir_scan(dir.entries, <<>>)

\* CertificatesImporter::import on an HTTP exchange [ok, pkgs]: ok is false when the
\* request fails, the status is not 200 or the body is not a JSON package list.
import(resp) ==
    IF ~resp.ok THEN Err("import") ELSE Ok(resp.pkgs)

\* The closure get_certificates maps over the packages.
RECURSIVE issuer_map(_, _)
issuer_map(pkgs, certs) ==
    IF pkgs = <<>> THEN Ok(certs)
    ELSE LET x == Head(pkgs)
             cert == pem_convert_to_rustls(x.pair)
         IN  IF ~cert.ok THEN Err("pair")
             ELSE issuer_map(Tail(pkgs),
                     Append(certs, [cert.v EXCEPT
                         !.custom = Some([name |-> x.name, canister_id |-> x.canister])]))

\* CertificatesImporter::get_certificates: import, then convert each package.
issuer_get_certificates(resp) ==
    LET pkgs == import(resp)
    IN  IF ~pkgs.ok THEN pkgs ELSE issuer_map(pkgs.v, <<>>)

\* setup: the Dir providers first, then the issuer providers.
Providers == <<"dir", "issuer">>

get_certificates(kind, input) ==
    IF kind = "dir" THEN dir_get_certificates(input) ELSE issuer_get_certificates(input)

RECURSIVE flatten(_)
flatten(lists) ==
    IF lists = <<>> THEN <<>> ELSE Head(lists) \o flatten(Tail(lists))

\* A fetch that drops the providers that failed and keeps the lists of the others.
fetch_skip_errors(results) ==
    Ok(flatten([i \in DOMAIN results |-> IF results[i].ok THEN results[i].v ELSE <<>>]))

\* A fetch that concatenates the lists last provider first.
fetch_reversed(results) ==
    LET bad == {i \in DOMAIN results : ~results[i].ok}
        n == Len(results)
    IN  IF bad # {} THEN results[Min(bad)]
        ELSE Ok(flatten([i \in DOMAIN results |-> results[n + 1 - i].v]))

\* Aggregator::fetch on the providers' answers, in provider order: the first error, or
\* the concatenation of the lists.
fetch(results) ==
    LET bad == {i \in DOMAIN results : ~results[i].ok}
    IN  IF bad # {} THEN results[Min(bad)]
        ELSE Ok(flatten([i \in DOMAIN results |-> results[i].v]))

---------------------------------------------------------------------------
(* What the providers can be given *)

NA == <<LNs, LIo>>
NB == <<LIc, LIo>>
NW == <<LStar, LIo>>

PairA == [valid |-> TRUE, san |-> <<NA>>, cn |-> NA, key |-> "k1"]
PairB == [valid |-> TRUE, san |-> <<NB, NA>>, cn |-> NB, key |-> "k2"]
PairW == [valid |-> TRUE, san |-> <<NW>>, cn |-> NW, key |-> "k3"]
PairC == [valid |-> TRUE, san |-> <<NA>>, cn |-> NB, key |-> "k4"]
PairBad == [valid |-> FALSE, san |-> <<>>, cn |-> <<>>, key |-> "k0"]

PairNoSan == [valid |-> TRUE, san |-> <<>>, cn |-> NA, key |-> "k6"]

File(pair) ==
    [is_file |-> TRUE, ext |-> Some("pem"), readable |-> TRUE, key_readable |-> TRUE,
     pair |-> pair]
Junk ==
    [is_file |-> TRUE, ext |-> Some("baz"), readable |-> TRUE, key_readable |-> FALSE,
     pair |-> PairBad]

\* The longest directory listing the Dir provider is given.
MaxEntries == 2

\* The kinds of directory entry: two loadable pairs, one with an upper-case extension; a
\* subdirectory named like a certificate; files that are no .pem; and .pem files whose
\* key is missing, whose pair does not parse, or whose certificate has no SAN.
EntryKinds ==
    {File(PairA),
     [File(PairW) EXCEPT !.ext = Some("PEM")],
     [File(PairB) EXCEPT !.is_file = FALSE, !.key_readable = FALSE],
     Junk,
     [Junk EXCEPT !.ext = None],
     [File(PairB) EXCEPT !.key_readable = FALSE],
     File(PairBad),
     File(PairNoSan)}

Dirs ==
    {[readable |-> FALSE, entries |-> <<>>]}
        \cup {[readable |-> TRUE, entries |-> e] : e \in SeqsUpTo(EntryKinds, MaxEntries)}

DirInputs ==
    {[readable |-> FALSE, entries |-> <<>>],
     [readable |-> TRUE, entries |-> <<>>],
     [readable |-> TRUE, entries |-> <<Junk, File(PairA), File(PairW)>>]}

Pkg(n, pair) == [name |-> n, canister |-> "p4", pair |-> pair]

IssuerInputs ==
    {[ok |-> FALSE, pkgs |-> <<>>],
     [ok |-> TRUE, pkgs |-> <<>>],
     [ok |-> TRUE, pkgs |-> <<Pkg(NB, PairB)>>],
     [ok |-> TRUE, pkgs |-> <<Pkg(NB, PairB), Pkg(NA, PairA)>>],
     [ok |-> TRUE, pkgs |-> <<Pkg(NB, PairA)>>],
     [ok |-> TRUE, pkgs |-> <<Pkg(NB, PairC)>>],
     [ok |-> TRUE, pkgs |-> <<Pkg(NB, PairBad)>>]}

Inputs(kind) == IF kind = "dir" THEN DirInputs ELSE IssuerInputs

Servers == {"http_server", "https_server"}

---------------------------------------------------------------------------
(* HTTP messages (routing/middleware/request_id.rs) *)

HEADER == "x-request-id"

HeaderNames == {HEADER, "content-type"}

\* A HeaderMap: every header name with the sequence of its values.
NoHeaders == [n \in HeaderNames |-> <<>>]

\* A header insertion that keeps the values already there (HeaderMap::append).
append(headers, name, value) == [headers EXCEPT ![name] = Append(@, value)]

\* HeaderMap::insert: the value replaces every value the name had.
insert(headers, name, value) == [headers EXCEPT ![name] = <<value>>]

\* The ids Uuid::now_v7() can give, and Uuid::to_string of each.
Uuids == {"Uuid1", "Uuid2"}

to_string(uuid) ==
    IF uuid = "Uuid1" THEN "01900000-0000-7000-8000-000000000001"
    ELSE "01900000-0000-7000-8000-000000000002"

\* What a client can send as x-request-id: nothing, a value of its own, or two values
\* one of which is an id the gateway can generate.
ClientRequests ==
    {[headers |-> [NoHeaders EXCEPT ![HEADER] = v], extensions |-> None] :
        v \in {<<>>, <<"client">>, <<"client", to_string("Uuid1")>>}}

\* What the inner handler can return for a request: any status, an x-request-id of its
\* own, the request's or none, and a RequestId extension of its own or none.
InnerResponses(req) ==
    {[status |-> st, headers |-> [NoHeaders EXCEPT ![HEADER] = v], extensions |-> e] :
        st \in {"200", "503"},
        v \in {<<>>, <<"inner">>, req.headers[HEADER]},
        e \in {None} \cup {Some(u) : u \in Uuids}}

---------------------------------------------------------------------------
(* extract_authority (routing/middleware/mod.rs).  Texts are sequences of  *)
(* characters; "0xFF" stands for a byte that is no visible ASCII.          *)

\* str::split(c).next(): the text up to the first c.
RECURSIVE split_next(_, _)
split_next(x, c) ==
    IF x = <<>> \/ x[1] = c THEN <<>> ELSE <<x[1]>> \o split_next(Tail(x), c)

\* str::rsplitn(2, c).next(): the text after the last c.
RECURSIVE rsplit_next(_, _)
rsplit_next(x, c) ==
    IF x = <<>> \/ Last(x) = c THEN <<>>
    ELSE Append(rsplit_next(SubSeq(x, 1, Len(x) - 1), c), Last(x))

\* http::uri::Authority::host: the authority without userinfo and port; a bracketed
\* IPv6 literal is kept with its brackets.
uri_host(auth) ==
    LET host_port == rsplit_next(auth, "@")
    IN  IF host_port # <<>> /\ host_port[1] = "["
          THEN Append(split_next(host_port, "]"), "]")
          ELSE split_next(host_port, ":")

\* HeaderValue::to_str: the value as text when every byte is visible ASCII.
to_str(value) ==
    IF \E i \in DOMAIN value : value[i] = "0xFF" THEN Err("ToStrError") ELSE Ok(value)

\* The characters a label may hold, and u8::to_ascii_lowercase on them.
LabelChars == {"f", "o", "b", "F", "-"}

lower(c) == IF c = "F" THEN "f" ELSE c

\* The labels of a dotted text, left to right.
RECURSIVE dotted(_)
dotted(x) ==
    LET l == split_next(x, ".")
    IN  IF Len(l) = Len(x) THEN <<l>>
        ELSE <<l>> \o dotted(SubSeq(x, Len(l) + 2, Len(x)))

\* FQDN::from_str: the lower-cased labels of the text, a trailing dot allowed; the empty
\* text and "." are the root; an empty label or a character no label may hold is an
\* error.
FQDN_from_str(x) ==
    LET body == IF x # <<>> /\ Last(x) = "." THEN SubSeq(x, 1, Len(x) - 1) ELSE x
        labels == dotted(body)
    IN  IF body = <<>> THEN Ok(<<>>)
        ELSE IF \E i \in DOMAIN labels :
                    \/ labels[i] = <<>>
                    \/ \E j \in DOMAIN labels[i] : labels[i][j] \notin LabelChars
               THEN Err("fqdn")
        ELSE Ok([i \in DOMAIN labels |-> [j \in DOMAIN labels[i] |-> lower(labels[i][j])]])

\* Result::ok.
result_ok(r) == IF r.ok THEN Some(r.v) ELSE None

\* An extract_authority that turns to the Host header whenever the URI gave no FQDN.
extract_authority_fallback(req) ==
    LET parse(x) == result_ok(FQDN_from_str(split_next(x, ":")))
        from_uri == IF IsSome(req.authority)
                      THEN parse(uri_host(Unwrap(req.authority))) ELSE None
        header == IF IsSome(req.host_header) THEN result_ok(to_str(Unwrap(req.host_header)))
                  ELSE None
    IN  IF IsSome(from_uri) THEN from_uri
        ELSE IF IsSome(header) THEN parse(Unwrap(header)) ELSE None

\* extract_authority: the host of the URI's authority or else the Host header, cut at
\* the first ':' and parsed as an FQDN.
extract_authority(req) ==
    LET authority == IF IsSome(req.authority)
                       THEN Some(uri_host(Unwrap(req.authority)))
                       ELSE IF IsSome(req.host_header)
                              THEN result_ok(to_str(Unwrap(req.host_header)))
                              ELSE None
    IN  IF ~IsSome(authority) THEN None
        ELSE result_ok(FQDN_from_str(split_next(Unwrap(authority), ":")))

\* The authorities a request URI carries: foo.b, with a port, with userinfo, in upper
\* case, one that is no FQDN, and a bracketed IPv6 literal.
TFooB == <<"f", "o", "o", ".", "b">>
TPort == <<":", "8", "0">>
UriAuthorities ==
    {TFooB, TFooB \o TPort, <<"u", "@">> \o TFooB \o TPort, <<"F", "o", "o", ".", "b">>,
     <<"f", "_", "o">>, <<"[", ":", ":", "1", "]">> \o TPort}

\* The values of a Host header: o.b, with a port, with a trailing dot, badly formatted
\* ones, one that is no visible ASCII, and foo.b.
HostHeaders ==
    {<<"o", ".", "b">>, <<"o", ".", "b">> \o TPort, <<"o", ".", "b", ".">>,
     <<"f", "o", "o", "|", "|", "|", "b">>, <<"o", ".", ".", "b">>,
     <<"o", "0xFF", "b">>, <<"o", "|", "b">> \o TPort, TFooB}

AuthRequests ==
    [authority : {None} \cup {Some(a) : a \in UriAuthorities},
     host_header : {None} \cup {Some(h) : h \in HostHeaders}]

---------------------------------------------------------------------------
(* The rate limiter (routing/middleware/rate_limiter.rs): a GovernorLayer  *)
(* keyed by the client's IP address.                                       *)

\* The clock's ticks in a second.
TicksPerSecond == 2

Ips == {"ip1", "ip2"}

\* The connection info a request carries in its extensions: Option of the remote IP.
Conns == {None} \cup {Some(ip) : ip \in Ips}

\* IpKeyExtractor::extract.
extract(conn) ==
    IF IsSome(conn) THEN Ok(Unwrap(conn)) ELSE Err("UnableToExtractKey")

\* build: the period between two cells, Duration::from_nanos((1e9 / rps) as u64).
period(rps) == TicksPerSecond \div rps

\* A limiter that lets one request through per period whatever the burst size.
test_and_update_no_burst(cfg, state, t0) ==
    LET t == period(cfg.rps)
        cur == IF IsSome(state) THEN Unwrap(state) ELSE t0 + t
    IN  IF t0 < cur - t THEN Err("TooManyRequests")
        ELSE Ok(IF cur > t0 THEN cur + t ELSE t0 + t)

\* The limiter's decision for one key (governor's GCRA, as GovernorConfigBuilder sets it
\* up: one cell every period, burst_size cells at most): Ok with the key's new state, or
\* TooManyRequests with the state left as it is.
test_and_update(cfg, state, t0) ==
    LET t == period(cfg.rps)
        tau == t * cfg.burst_size
        cur == IF IsSome(state) THEN Unwrap(state) ELSE t0 + t
        earliest_time == IF cur > tau THEN cur - tau ELSE 0
    IN  IF t0 < earliest_time THEN Err("TooManyRequests")
        ELSE Ok(IF cur > t0 THEN cur + t ELSE t0 + t)

\* The response of GovernorLayer to a GovernorError.
as_response(e) == IF e = "TooManyRequests" THEN 429 ELSE 500

---------------------------------------------------------------------------
(* Error causes (routing/error_cause.rs) *)

\* An ErrorCause is [kind, payload]: the variant's name and, for a variant with a field,
\* Some of the field's value.
Unit(kind) == [kind |-> kind, payload |-> None]
With(kind, x) == [kind |-> kind, payload |-> Some(x)]

UnitKinds ==
    {"LoadShed", "RequestTooLarge", "IncorrectPrincipal", "NoAuthority", "UnknownDomain",
     "CanisterIdNotFound", "DomainCanisterMismatch", "Denylisted", "BackendErrorConnect",
     "BackendTimeout"}

StringKinds ==
    {"UnableToReadBody", "MalformedRequest", "AgentError", "BackendErrorDNS",
     "BackendTLSErrorOther", "BackendTLSErrorCert", "Other"}

\* The strings a variant's String field holds in the model.
Details == {"", "connection reset"}

\* RateLimitCause and its strum Display (serialize_all = "snake_case").
RateLimitCauses == {"Normal"}

rate_limit_cause_to_string(x) == "normal"

Causes ==
    {Unit(k) : k \in UnitKinds}
        \cup {With(k, x) : k \in StringKinds, x \in Details}
        \cup {With("RateLimited", x) : x \in RateLimitCauses}

\* A status_code that tells only an overloaded gateway from a failed one.
status_code_coarse(c) == IF c.kind = "LoadShed" THEN 503 ELSE 500

\* ErrorCause::status_code.
status_code(c) ==
    CASE c.kind = "Other" -> 500
      [] c.kind = "UnableToReadBody" -> 408
      [] c.kind = "LoadShed" -> 429
      [] c.kind = "RequestTooLarge" -> 413
      [] c.kind = "IncorrectPrincipal" -> 400
      [] c.kind = "MalformedRequest" -> 400
      [] c.kind = "NoAuthority" -> 400
      [] c.kind = "UnknownDomain" -> 400
      [] c.kind = "CanisterIdNotFound" -> 400
      [] c.kind = "AgentError" -> 500
      [] c.kind = "DomainCanisterMismatch" -> 403
      [] c.kind = "Denylisted" -> 451
      [] c.kind = "BackendErrorDNS" -> 503
      [] c.kind = "BackendErrorConnect" -> 503
      [] c.kind = "BackendTimeout" -> 500
      [] c.kind = "BackendTLSErrorOther" -> 503
      [] c.kind = "BackendTLSErrorCert" -> 503
      [] c.kind = "RateLimited" -> 429

\* A details that has none for any cause.
details_none(c) == None

\* ErrorCause::details.
details(c) ==
    CASE c.kind \in {"Other", "UnableToReadBody", "MalformedRequest", "BackendErrorDNS",
                      "BackendTLSErrorOther", "BackendTLSErrorCert", "AgentError"}
            -> Some(Unwrap(c.payload))
      [] c.kind = "LoadShed" -> Some("Overloaded")
      [] c.kind = "RateLimited" -> Some(rate_limit_cause_to_string(Unwrap(c.payload)))
      [] OTHER -> None

\* The bundled page error_pages/451.html.
PAGE_451 == "<html>451</html>"

\* ErrorCause::html.
html(c) == IF c.kind = "Denylisted" THEN Some(PAGE_451) ELSE None

\* Display for ErrorCause.
fmt(c) ==
    CASE c.kind = "Other" -> "general_error"
      [] c.kind = "UnableToReadBody" -> "unable_to_read_body"
      [] c.kind = "LoadShed" -> "load_shed"
      [] c.kind = "RequestTooLarge" -> "request_too_large"
      [] c.kind = "IncorrectPrincipal" -> "incorrect_principal"
      [] c.kind = "MalformedRequest" -> "malformed_request"
      [] c.kind = "UnknownDomain" -> "unknown_domain"
      [] c.kind = "CanisterIdNotFound" -> "canister_id_not_found"
      [] c.kind = "DomainCanisterMismatch" -> "domain_canister_mismatch"
      [] c.kind = "Denylisted" -> "denylisted"
      [] c.kind = "NoAuthority" -> "no_authority"
      [] c.kind = "AgentError" -> "agent_error"
      [] c.kind = "BackendErrorDNS" -> "backend_error_dns"
      [] c.kind = "BackendErrorConnect" -> "backend_error_connect"
      [] c.kind = "BackendTimeout" -> "backend_timeout"
      [] c.kind = "BackendTLSErrorOther" -> "backend_tls_error"
      [] c.kind = "BackendTLSErrorCert" -> "backend_tls_error_cert"
      [] c.kind = "RateLimited"
            -> "rate_limited_" \o rate_limit_cause_to_string(Unwrap(c.payload))

CONTENT_TYPE_HTML == "text/html; charset=utf-8"

\* The content type (StatusCode, String)::into_response gives a String body.
CONTENT_TYPE_TEXT == "text/plain; charset=utf-8"

\* IntoResponse for ErrorCause.
into_response(c) ==
    LET body == IF IsSome(html(c)) THEN Unwrap(html(c)) \o "\n"
                ELSE IF IsSome(details(c)) THEN fmt(c) \o ": " \o Unwrap(details(c)) \o "\n"
                ELSE fmt(c)
    IN  [status |-> status_code(c),
         body |-> body,
         content_type |-> IF IsSome(html(c)) THEN CONTENT_TYPE_HTML ELSE CONTENT_TYPE_TEXT,
         extensions |-> Some(c)]

---------------------------------------------------------------------------
(* Initial values of the parts a specification leaves alone *)

ResolverIdle ==
    /\ domains = <<D1>>
    /\ aliases_in = <<>>
    /\ host = <<>>
    /\ resolved = None

AggIdle ==
    /\ aggpc = "select"
    /\ agg_result = None
    /\ agg_log = ""
    /\ provRes = [i \in DOMAIN Providers |-> None]
    /\ round = 0
    /\ nstore = 0
    /\ done = <<>>
    /\ last_fetch = None

MainIdle ==
    /\ token = FALSE
    /\ servers = Servers
    /\ mainpc = "running"

TlsIdle ==
    /\ acme_cfg = FALSE
    /\ stapler_cfg = FALSE
    /\ hello = None
    /\ tls_out = None

\* main has run up to tasks.start(&token): the servers and the aggregator are spawned.
StartIdle ==
    /\ cli = [domain |-> <<D1>>, domain_system |-> <<>>, domain_app |-> <<>>,
              acme_challenge |-> FALSE, dir |-> <<"/certs">>,
              issuer_urls |-> <<"https://issuer">>]
    /\ tasks = Servers \cup {"cert_aggregator"}
    /\ spawned = Servers \cup {"cert_aggregator"}
    /\ main_result = None

MwIdle ==
    /\ mwpc = "idle"
    /\ request_id = None
    /\ received = [headers |-> NoHeaders, extensions |-> None]
    /\ request = received
    /\ inner_response = None
    /\ response = None

ErrIdle ==
    /\ cause = Unit("LoadShed")
    /\ err_out = None

DirIdle ==
    /\ dir_in = [readable |-> TRUE, entries |-> <<>>]
    /\ dir_out = None

WvIdle ==
    /\ wv_in = [inner |-> Ok(<<>>), rejects |-> {}]
    /\ wvpc = "done"
    /\ imports = 0
    /\ verified = <<>>
    /\ wv_out = None

RlIdle ==
    /\ rl_cfg = [rps |-> 1, burst_size |-> 1]
    /\ clock = 0
    /\ tat = [k \in Ips |-> None]
    /\ rl_sent = <<>>

AuthIdle ==
    /\ auth_req = [authority |-> None, host_header |-> None]
    /\ auth_out = None

ArIdle ==
    /\ ar_in = [resolvers |-> <<>>, rustls |-> None, stapler |-> FALSE]
    /\ arpc = "done"
    /\ ar_calls = <<>>
    /\ ar_x = None
    /\ ar_out = None

UnitIdle == WvIdle /\ RlIdle /\ AuthIdle /\ ArIdle

AuxIdle == StartIdle /\ MwIdle /\ ErrIdle /\ DirIdle /\ UnitIdle

---------------------------------------------------------------------------
(* The aggregator, the readers of the store and the lifecycle of main,     *)
(* from the moment tasks.start(&token) has spawned the tasks.  Spec is the *)
(* aggregator beside a reader of the store; SpecLife is the aggregator     *)
(* beside the HTTP servers and main's shutdown.                            *)

Init ==
    /\ ResolverIdle
    /\ TlsIdle
    /\ AggIdle
    /\ MainIdle
    /\ AuxIdle
    /\ storage = None
    /\ reader = None

\* select!: the interval.tick() branch is taken; fetch() starts every provider.
AggTick ==
    /\ aggpc = "select"
    /\ round < MaxRounds
    /\ aggpc' = "fetching"
    /\ round' = round + 1
    /\ provRes' = [i \in DOMAIN Providers |-> None]
    /\ done' = <<>>
    /\ UNCHANGED <<agg_result, agg_log, nstore, last_fetch, storage, reader>>
    /\ UNCHANGED <<resolver_vars, main_vars, tls_vars>>
    /\ UNCHANGED aux_vars

\* One provider's get_certificates() completes; the calls complete in any order.
ProviderDone(i) ==
    /\ aggpc = "fetching"
    /\ provRes[i] = None
    /\ \E input \in Inputs(Providers[i]) :
          provRes' = [provRes EXCEPT
              ![i] = Some([input |-> input, res |-> get_certificates(Providers[i], input)])]
    /\ done' = Append(done, i)
    /\ UNCHANGED <<aggpc, agg_result, agg_log, round, nstore, last_fetch, storage, reader>>
    /\ UNCHANGED <<resolver_vars, main_vars, tls_vars>>
    /\ UNCHANGED aux_vars

\* A join_all that hands back the outputs in the order the futures completed.
join_all_completion_order(order, outs) == [k \in DOMAIN order |-> Unwrap(outs[order[k]]).res]

\* join_all: the outputs in the order of the futures it was given, whatever the order
\* they completed in.
join_all(order, outs) == [i \in DOMAIN outs |-> Unwrap(outs[i]).res]

RoundResults == join_all(done, provRes)

\* A tick branch that returns from run when fetch() fails.
AggFinish_return_on_error ==
    /\ aggpc = "fetching"
    /\ \A i \in DOMAIN Providers : IsSome(provRes[i])
    /\ LET certs == fetch(RoundResults)
       IN  IF ~certs.ok
           THEN /\ agg_log' = "fetch_err"
                /\ aggpc' = "returned"
                /\ agg_result' = Some("Err")
                /\ last_fetch' = None
                /\ UNCHANGED <<storage, nstore>>
           ELSE /\ storage' = store(storage, certs.v)
                /\ nstore' = nstore + 1
                /\ agg_log' = IF store_result(certs.v).ok THEN "stored" ELSE "store_err"
                /\ aggpc' = "select"
                /\ agg_result' = agg_result
                /\ last_fetch' = Some([answers |-> [i \in DOMAIN Providers |->
                                                       Unwrap(provRes[i]).res],
                                       list |-> certs.v])
    /\ UNCHANGED <<provRes, round, done, reader>>
    /\ UNCHANGED <<resolver_vars, main_vars, tls_vars>>
    /\ UNCHANGED aux_vars

\* join_all has every answer: the rest of the tick branch of Aggregator::run.
AggFinish ==
    /\ aggpc = "fetching"
    /\ \A i \in DOMAIN Providers : IsSome(provRes[i])
    /\ LET certs == fetch(RoundResults)
       IN  IF ~certs.ok
           THEN /\ agg_log' = "fetch_err"
                /\ UNCHANGED <<storage, nstore>>
           ELSE /\ storage' = store(storage, certs.v)
                /\ nstore' = nstore + 1
                /\ agg_log' = IF store_result(certs.v).ok THEN "stored" ELSE "store_err"
    /\ last_fetch' = IF fetch(RoundResults).ok
                      THEN Some([answers |-> [i \in DOMAIN Providers |->
                                                 Unwrap(provRes[i]).res],
                                 list |-> fetch(RoundResults).v])
                      ELSE None
    /\ aggpc' = "select"
    /\ UNCHANGED <<agg_result, provRes, round, done, reader>>
    /\ UNCHANGED <<resolver_vars, main_vars, tls_vars>>
    /\ UNCHANGED aux_vars

\* An aggregator whose select! has no token.cancelled() branch.
AggExit_never ==
    /\ FALSE
    /\ UNCHANGED vars

\* select!: the token.cancelled() branch is taken.
AggExit ==
    /\ aggpc = "select"
    /\ token
    /\ aggpc' = "returned"
    /\ agg_result' = Some("Ok")
    /\ UNCHANGED <<agg_log, provRes, round, nstore, done, last_fetch, storage, reader>>
    /\ UNCHANGED <<resolver_vars, main_vars, tls_vars>>
    /\ UNCHANGED aux_vars

\* The ctrlc handler cancels the token.
Cancel ==
    /\ ~token
    /\ token' = TRUE
    /\ UNCHANGED <<servers, mainpc, storage, reader>>
    /\ UNCHANGED <<resolver_vars, agg_vars, tls_vars>>
    /\ UNCHANGED aux_vars

\* A reader (a handshake, a request) loads the store's current reference.
ReaderLoad ==
    /\ reader = None
    /\ reader' = Some(storage)
    /\ UNCHANGED <<storage, resolver_vars, agg_vars, main_vars, tls_vars>>
    /\ UNCHANGED aux_vars

\* The reader is done with the reference it loaded.
ReaderDrop ==
    /\ reader # None
    /\ reader' = None
    /\ UNCHANGED <<storage, resolver_vars, agg_vars, main_vars, tls_vars>>
    /\ UNCHANGED aux_vars

\* An HTTP server sees the cancelled token, shuts down and returns.
ServerExit(s) ==
    /\ token
    /\ s \in servers
    /\ servers' = servers \ {s}
    /\ UNCHANGED <<token, mainpc, storage, reader>>
    /\ UNCHANGED <<resolver_vars, agg_vars, tls_vars>>
    /\ UNCHANGED aux_vars

\* main: token.cancelled().await returns and tasks.stop() is called.
MainStop ==
    /\ mainpc = "running"
    /\ token
    /\ mainpc' = "stopping"
    /\ UNCHANGED <<token, servers, storage, reader>>
    /\ UNCHANGED <<resolver_vars, agg_vars, tls_vars>>
    /\ UNCHANGED aux_vars

\* A tasks.stop() that completes without waiting for the tasks.
MainStopped_no_wait ==
    /\ mainpc = "stopping"
    /\ mainpc' = "stopped"
    /\ UNCHANGED <<token, servers, storage, reader>>
    /\ UNCHANGED <<resolver_vars, agg_vars, tls_vars>>
    /\ UNCHANGED aux_vars

\* tasks.stop().await completes: every spawned task has returned.
MainStopped ==
    /\ mainpc = "stopping"
    /\ aggpc = "returned"
    /\ servers = {}
    /\ mainpc' = "stopped"
    /\ UNCHANGED <<token, servers, storage, reader>>
    /\ UNCHANGED <<resolver_vars, agg_vars, tls_vars>>
    /\ UNCHANGED aux_vars

\* main stops the Clickhouse sink and returns.
MainDone ==
    /\ mainpc = "stopped"
    /\ mainpc' = "done"
    /\ main_result' = Some(Ok("unit"))
    /\ UNCHANGED <<token, servers, storage, reader>>
    /\ UNCHANGED <<resolver_vars, agg_vars, tls_vars>>
    /\ UNCHANGED <<cli, tasks, spawned, mw_vars, err_vars, dir_vars, unit_vars>>

Next ==
    \/ AggTick
    \/ \E i \in DOMAIN Providers : ProviderDone(i)
    \/ AggFinish
    \/ AggExit
    \/ Cancel
    \/ ReaderLoad
    \/ ReaderDrop

Spec == Init /\ [][Next]_vars

NextLife ==
    \/ AggTick
    \/ \E i \in DOMAIN Providers : ProviderDone(i)
    \/ AggFinish
    \/ AggExit
    \/ Cancel
    \/ \E s \in Servers : ServerExit(s)
    \/ MainStop
    \/ MainStopped
    \/ MainDone

SpecLife == Init /\ [][NextLife]_vars

---------------------------------------------------------------------------
(* The hostname resolver as a state machine: a request host is fixed, the  *)
(* store is published into, and the host is resolved against the current   *)
(* store.                                                                  *)

InitResolve ==
    /\ \E c \in Configs :
          /\ domains = c.domains
          /\ aliases_in = c.aliases
    /\ host \in Hosts
    /\ resolved = None
    /\ storage = None
    /\ reader = None
    /\ AggIdle
    /\ MainIdle
    /\ TlsIdle
    /\ AuxIdle

\* StoresCertificates::store called with a record list.
Store ==
    /\ \E records \in StoreRecordLists :
          storage' = store(storage, records)
    /\ UNCHANGED <<resolver_vars, agg_vars, main_vars, reader, tls_vars>>
    /\ UNCHANGED aux_vars

\* CanisterResolver::resolve_alias(host).
ResolveAlias ==
    /\ resolved' = Some([op |-> "resolve_alias",
                         out |-> resolve_alias(new_aliases(aliases_in, domains), host)])
    /\ UNCHANGED <<domains, aliases_in, host>>
    /\ UNCHANGED <<storage, agg_vars, main_vars, reader, tls_vars>>
    /\ UNCHANGED aux_vars

\* CanisterResolver::resolve_domain(host).
ResolveDomain ==
    /\ resolved' = Some([op |-> "resolve_domain", out |-> resolve_domain(domains, host)])
    /\ UNCHANGED <<domains, aliases_in, host>>
    /\ UNCHANGED <<storage, agg_vars, main_vars, reader, tls_vars>>
    /\ UNCHANGED aux_vars

\* ResolvesCanister::resolve_canister(host).
ResolveCanister ==
    /\ resolved' = Some([op |-> "resolve_canister",
                         out |-> resolve_canister(new_aliases(aliases_in, domains),
                                                  domains, storage, host)])
    /\ UNCHANGED <<domains, aliases_in, host>>
    /\ UNCHANGED <<storage, agg_vars, main_vars, reader, tls_vars>>
    /\ UNCHANGED aux_vars

NextResolve == Store \/ ResolveAlias \/ ResolveDomain \/ ResolveCanister

SpecResolve == InitResolve /\ [][NextResolve]_vars

\* First labels with a prefix before the id: f--g--<id>, f---<id> (the prefix f- ends in
\* a hyphen), and candidates that are no principal: b, f--b.
LFGId == <<"f", "-", "-", "g", "-", "-", "a", "-", "a">>
LFDashId == <<"f", "-", "-", "-", "a", "-", "a">>
LB == <<"b">>
LFooB == <<"f", "-", "-", "b">>

FirstLabels == {LId, LFooId, LFGId, LFDashId, LB, LFooB}

\* An alias of two labels, ic.ns, that lies under the alias ns.
AIcNs == [name |-> <<LIc, LNs>>, id |-> "p6"]

NameConfigs ==
    {[domains |-> <<D1, D2>>, aliases |-> <<ANs, AIcNs>>],
     [domains |-> <<D1, D2>>, aliases |-> <<AIcNs, ANs>>],
     [domains |-> <<D2>>, aliases |-> <<>>]}

\* Hosts <first label>[.raw].<rest>, and hosts at and under the aliases.
NameHosts ==
    {<<l>> \o mid \o d : l \in FirstLabels, mid \in {<<>>, <<LRaw>>},
                           d \in {D1, D2, <<LNs>>}}
        \cup {<<LNs>> \o D2, <<LIc, LNs>> \o D2, <<LId, LIc, LNs>> \o D2,
              <<LIc, LNs>> \o D1, <<LNs, LIc, LNs>> \o D1}

\* The resolver over hosts with prefixed first labels and over overlapping aliases.
InitNames ==
    /\ \E c \in NameConfigs :
          /\ domains = c.domains
          /\ aliases_in = c.aliases
    /\ host \in NameHosts
    /\ resolved = None
    /\ storage = None
    /\ reader = None
    /\ AggIdle
    /\ MainIdle
    /\ TlsIdle
    /\ AuxIdle

SpecNames == InitNames /\ [][NextResolve]_vars

---------------------------------------------------------------------------
(* The TLS certificate resolver (tls/resolver.rs, tls/mod.rs)              *)

\* A certificate handed to Rustls: [cert: key id, stapled: whether the stapler returned it].
Certified(k) == [cert |-> k, stapled |-> FALSE]

\* Staples::staple.
staple(x) == [x EXCEPT !.stapled = TRUE]

\* Iterator::find_map over the sub-resolvers' answers, in registration order.
RECURSIVE find_map(_)
find_map(outs) ==
    IF outs = <<>> THEN None
    ELSE IF IsSome(Head(outs)) THEN Head(outs)
    ELSE find_map(Tail(outs))

\* A resolve that asks the Rustls resolver first.
resolve_rustls_first(resolvers_out, rustls_out, stapler) ==
    LET x == or_else(rustls_out, find_map(resolvers_out))
    IN  IF ~IsSome(x) THEN None
        ELSE IF stapler THEN Some(staple(Unwrap(x)))
        ELSE x

\* AggregatingResolver::resolve, given what each resolver of `resolvers` answers, what the
\* Rustls resolver answers (None when there is none) and whether a stapler is set.
resolve(resolvers_out, rustls_out, stapler) ==
    LET x == or_else(find_map(resolvers_out), rustls_out)
    IN  IF ~IsSome(x) THEN None
        ELSE IF stapler THEN Some(staple(Unwrap(x)))
        ELSE x

\* The store as a ResolvesServerCert: lookup_sni of the hello's server name.
store_resolve(st, ch) ==
    LET k == IF IsSome(ch.sni) THEN lookup_sni(st, Unwrap(ch.sni)) ELSE None
    IN  IF IsSome(k) THEN Some(Certified(Unwrap(k))) ELSE None

\* The ACME resolver's answer, when setup built one.
acme_resolve(cfg, ch) == IF cfg THEN ch.acme ELSE None

\* setup: AggregatingResolver::new(acme_resolver, vec![cert_resolver]).
setup_resolve(st, cfg, stapler, ch) ==
    resolve(<<store_resolve(st, ch)>>, acme_resolve(cfg, ch), stapler)

\* A ClientHello: its server name, and what the ACME resolver would answer for it.
SniNames == {None, Some(<<LNs, LIc, LIo>>), Some(<<LId, LIo>>), Some(<<LRaw, LNs>>), Some(<<LIo>>)}

Hellos == [sni : SniNames, acme : {None, Some(Certified("acme"))}]

InitTls ==
    /\ acme_cfg \in BOOLEAN
    /\ stapler_cfg \in BOOLEAN
    /\ hello = None
    /\ tls_out = None
    /\ storage = None
    /\ reader = None
    /\ ResolverIdle
    /\ AggIdle
    /\ MainIdle
    /\ AuxIdle

\* ResolvesServerCert::resolve(ch) during a handshake.
TlsResolve ==
    /\ \E ch \in Hellos :
          /\ hello' = Some(ch)
          /\ tls_out' = Some([store |-> store_resolve(storage, ch),
                               acme |-> acme_resolve(acme_cfg, ch),
                               out |-> setup_resolve(storage, acme_cfg, stapler_cfg, ch)])
    /\ UNCHANGED <<acme_cfg, stapler_cfg>>
    /\ UNCHANGED <<storage, resolver_vars, agg_vars, main_vars, reader>>
    /\ UNCHANGED aux_vars

NextTls == Store \/ TlsResolve

SpecTls == InitTls /\ [][NextTls]_vars

---------------------------------------------------------------------------
(* AggregatingResolver::resolve call by call, over any list of resolvers.  *)

\* The longest list of resolvers.
MaxResolvers == 3

InitAr ==
    /\ ResolverIdle
    /\ storage = None
    /\ reader = None
    /\ AggIdle
    /\ MainIdle
    /\ TlsIdle
    /\ StartIdle
    /\ MwIdle
    /\ ErrIdle
    /\ DirIdle
    /\ WvIdle
    /\ RlIdle
    /\ AuthIdle
    /\ \E rs \in SeqsUpTo({None, Some(Certified("k1")), Some(Certified("k2"))},
                            MaxResolvers),
          ru \in {None, Some(None), Some(Some(Certified("acme")))},
          st \in BOOLEAN :
          ar_in = [resolvers |-> rs, rustls |-> ru, stapler |-> st]
    /\ arpc = "find_map"
    /\ ar_calls = <<>>
    /\ ar_x = None
    /\ ar_out = None

\* The resolvers consulted so far.
Consulted == {k \in DOMAIN ar_calls : ar_calls[k].fn = "resolve"}

\* A find_map step that goes on to the next resolver after a hit, keeping the first hit.
ArFindMap_exhaustive ==
    /\ arpc = "find_map"
    /\ Cardinality(Consulted) < Len(ar_in.resolvers)
    /\ LET i == Cardinality(Consulted) + 1
       IN  /\ ar_calls' = Append(ar_calls, [fn |-> "resolve", who |-> i])
           /\ ar_x' = or_else(ar_x, ar_in.resolvers[i])
           /\ arpc' = IF i = Len(ar_in.resolvers) /\ IsSome(ar_x') THEN "map" ELSE arpc
    /\ UNCHANGED <<ar_in, ar_out>>
    /\ UNCHANGED <<resolver_vars, storage, agg_vars, main_vars, reader, tls_vars>>
    /\ UNCHANGED <<start_vars, mw_vars, err_vars, dir_vars, wv_vars, rl_vars, auth_vars>>

\* self.resolvers.iter().find_map(|x| x.resolve(&ch)): the next resolver is asked.
ArFindMap ==
    /\ arpc = "find_map"
    /\ Cardinality(Consulted) < Len(ar_in.resolvers)
    /\ LET i == Cardinality(Consulted) + 1
       IN  /\ ar_calls' = Append(ar_calls, [fn |-> "resolve", who |-> i])
           /\ ar_x' = ar_in.resolvers[i]
           /\ arpc' = IF IsSome(ar_in.resolvers[i]) THEN "map" ELSE arpc
    /\ UNCHANGED <<ar_in, ar_out>>
    /\ UNCHANGED <<resolver_vars, storage, agg_vars, main_vars, reader, tls_vars>>
    /\ UNCHANGED <<start_vars, mw_vars, err_vars, dir_vars, wv_vars, rl_vars, auth_vars>>

\* .or_else(|| self.rustls.as_ref().and_then(|x| x.resolve(ch))): no resolver matched.
ArOrElse ==
    /\ arpc = "find_map"
    /\ Cardinality(Consulted) = Len(ar_in.resolvers)
    /\ IF IsSome(ar_in.rustls)
          THEN /\ ar_calls' = Append(ar_calls, [fn |-> "rustls", who |-> 0])
               /\ ar_x' = Unwrap(ar_in.rustls)
          ELSE /\ ar_calls' = ar_calls
               /\ ar_x' = None
    /\ arpc' = "map"
    /\ UNCHANGED <<ar_in, ar_out>>
    /\ UNCHANGED <<resolver_vars, storage, agg_vars, main_vars, reader, tls_vars>>
    /\ UNCHANGED <<start_vars, mw_vars, err_vars, dir_vars, wv_vars, rl_vars, auth_vars>>

\* .map(|x| self.stapler.as_ref().map(|v| v.staple(x.clone())).unwrap_or(x))
ArMap ==
    /\ arpc = "map"
    /\ arpc' = "done"
    /\ IF IsSome(ar_x) /\ ar_in.stapler
          THEN /\ ar_calls' = Append(ar_calls, [fn |-> "staple", who |-> 0])
               /\ ar_out' = Some(Some(staple(Unwrap(ar_x))))
          ELSE /\ ar_calls' = ar_calls
               /\ ar_out' = Some(ar_x)
    /\ UNCHANGED <<ar_in, ar_x>>
    /\ UNCHANGED <<resolver_vars, storage, agg_vars, main_vars, reader, tls_vars>>
    /\ UNCHANGED <<start_vars, mw_vars, err_vars, dir_vars, wv_vars, rl_vars, auth_vars>>

NextAr == ArFindMap \/ ArOrElse \/ ArMap

SpecAr == InitAr /\ [][NextAr]_vars

---------------------------------------------------------------------------
(* The start of main (core.rs) up to tasks.start(&token), with tls::setup  *)
(* (tls/mod.rs).                                                           *)

\* Itertools::unique: the first occurrence of every element, in order.
RECURSIVE unique(_)
unique(s) ==
    IF s = <<>> THEN <<>>
    ELSE LET init == unique(SubSeq(s, 1, Len(s) - 1))
         IN  IF \E i \in DOMAIN init : init[i] = Last(s) THEN init ELSE Append(init, Last(s))

\* A setup that goes on without a certificate source.
setup_unchecked(c, acme_ok) ==
    IF c.acme_challenge /\ ~acme_ok THEN Err("acme")
    ELSE Ok([runners |-> (IF c.acme_challenge THEN {"acme_runner"} ELSE {})
                            \cup {"cert_aggregator"},
             acme_resolver |-> c.acme_challenge])

\* tls::setup: the providers of --cert-dir and --cert-issuer-url, the ACME client when
\* --acme-challenge is given (acme_ok: whether AcmeTlsAlpn::new succeeds), the check that
\* there is a certificate source, and the runners to register.
setup(c, acme_ok) ==
    LET providers == c.dir \o c.issuer_urls
    IN  IF c.acme_challenge /\ ~acme_ok THEN Err("acme")
        ELSE IF ~c.acme_challenge /\ providers = <<>> THEN Err("no_sources")
        ELSE Ok([runners |-> (IF c.acme_challenge THEN {"acme_runner"} ELSE {})
                                \cup {"cert_aggregator"},
                 acme_resolver |-> c.acme_challenge])

\* The command lines main is started with.
Clis ==
    [domain : {<<>>, <<D1>>, <<D1, D2, D1>>},
     domain_system : {<<>>, <<D2>>},
     domain_app : {<<>>, <<D1>>},
     acme_challenge : BOOLEAN,
     dir : {<<>>, <<"/certs">>},
     issuer_urls : {<<>>, <<"https://issuer">>}]

InitStart ==
    /\ cli \in Clis
    /\ tasks = {}
    /\ spawned = {}
    /\ main_result = None
    /\ domains = <<>>
    /\ aliases_in = <<>>
    /\ host = <<>>
    /\ resolved = None
    /\ token = FALSE
    /\ servers = Servers
    /\ mainpc = "init"
    /\ storage = None
    /\ reader = None
    /\ AggIdle
    /\ TlsIdle
    /\ MwIdle
    /\ ErrIdle
    /\ DirIdle
    /\ UnitIdle

\* main returns Err(e).
MainFail(e) ==
    /\ main_result' = Some(Err(e))
    /\ mainpc' = "returned"

\* main: the serving domains are collected; none is fatal.
MainDomains ==
    /\ mainpc = "init"
    /\ LET all == cli.domain \o cli.domain_system \o cli.domain_app
       IN  IF all = <<>>
           THEN MainFail("no_domains") /\ UNCHANGED domains
           ELSE /\ domains' = unique(all)
                /\ mainpc' = "prepare"
                /\ UNCHANGED main_result
    /\ UNCHANGED <<aliases_in, host, resolved, token, servers, cli, tasks, spawned>>
    /\ UNCHANGED <<storage, agg_vars, reader, tls_vars, mw_vars, err_vars, dir_vars,
                 unit_vars>>

\* main: the crypto provider is installed, the HTTP client and the Clickhouse sink are
\* built and the ctrlc handler is set; each can fail.
MainPrepare ==
    /\ mainpc = "prepare"
    /\ \E ok \in BOOLEAN :
          IF ok THEN mainpc' = "setup_tls" /\ UNCHANGED main_result
          ELSE MainFail("prepare")
    /\ UNCHANGED <<resolver_vars, token, servers, cli, tasks, spawned>>
    /\ UNCHANGED <<storage, agg_vars, reader, tls_vars, mw_vars, err_vars, dir_vars,
                 unit_vars>>

\* main: tls::setup(...).context("unable to setup TLS")?, its runners registered.
MainSetupTls ==
    /\ mainpc = "setup_tls"
    /\ \E acme_ok \in BOOLEAN :
          LET r == setup(cli, acme_ok)
          IN  IF r.ok
              THEN /\ tasks' = tasks \cup r.v.runners
                   /\ acme_cfg' = r.v.acme_resolver
                   /\ mainpc' = "routers"
                   /\ UNCHANGED main_result
              ELSE /\ MainFail("unable to setup TLS")
                   /\ UNCHANGED <<tasks, acme_cfg>>
    /\ UNCHANGED <<resolver_vars, token, servers, cli, spawned>>
    /\ UNCHANGED <<stapler_cfg, hello, tls_out>>
    /\ UNCHANGED <<storage, agg_vars, reader, mw_vars, err_vars, dir_vars, unit_vars>>

\* main: the routers are set up, which can fail, and the two servers are registered.
MainRouters ==
    /\ mainpc = "routers"
    /\ \E ok \in BOOLEAN :
          IF ok
          THEN /\ tasks' = tasks \cup Servers
               /\ mainpc' = "start"
               /\ UNCHANGED main_result
          ELSE MainFail("setup_router") /\ UNCHANGED tasks
    /\ UNCHANGED <<resolver_vars, token, servers, cli, spawned>>
    /\ UNCHANGED <<storage, agg_vars, reader, tls_vars, mw_vars, err_vars, dir_vars,
                 unit_vars>>

\* main: tasks.start(&token) spawns every registered task.
MainStart ==
    /\ mainpc = "start"
    /\ spawned' = tasks
    /\ mainpc' = "running"
    /\ UNCHANGED <<resolver_vars, token, servers, cli, tasks, main_result>>
    /\ UNCHANGED <<storage, agg_vars, reader, tls_vars, mw_vars, err_vars, dir_vars,
                 unit_vars>>

NextStart == MainDomains \/ MainPrepare \/ MainSetupTls \/ MainRouters \/ MainStart

SpecStart == InitStart /\ [][NextStart]_vars

---------------------------------------------------------------------------
(* The request-id middleware as a state machine: a request arrives, the    *)
(* middleware tags it and runs the inner handler, and tags the response.   *)

InitMw ==
    /\ mwpc = "idle"
    /\ request_id = None
    /\ received \in ClientRequests
    /\ request = received
    /\ inner_response = None
    /\ response = None
    /\ storage = None
    /\ reader = None
    /\ ResolverIdle
    /\ AggIdle
    /\ MainIdle
    /\ TlsIdle
    /\ StartIdle
    /\ ErrIdle
    /\ DirIdle
    /\ UnitIdle

\* middleware: the id is generated and put into the request's extensions and headers, and
\* next.run(request) is called.
MwEnter ==
    /\ mwpc = "idle"
    /\ \E uuid \in Uuids :
          /\ request_id' = Some(uuid)
          /\ request' = [extensions |-> Some(uuid),
                          headers |-> insert(request.headers, HEADER, to_string(uuid))]
    /\ mwpc' = "inner"
    /\ UNCHANGED <<received, inner_response, response>>
    /\ UNCHANGED <<resolver_vars, storage, agg_vars, main_vars, reader, tls_vars>>
    /\ UNCHANGED <<start_vars, err_vars, dir_vars, unit_vars>>

\* next.run(request).await returns the inner handler's response.
MwInner ==
    /\ mwpc = "inner"
    /\ \E r \in InnerResponses(request) : inner_response' = Some(r)
    /\ mwpc' = "inner_done"
    /\ UNCHANGED <<request_id, received, request, response>>
    /\ UNCHANGED <<resolver_vars, storage, agg_vars, main_vars, reader, tls_vars>>
    /\ UNCHANGED <<start_vars, err_vars, dir_vars, unit_vars>>

\* middleware: the id is put into the response's extensions and headers, and the response
\* is returned.
MwExit ==
    /\ mwpc = "inner_done"
    /\ LET r == Unwrap(inner_response)
           uuid == Unwrap(request_id)
       IN  response' = Some([r EXCEPT
                                !.extensions = Some(uuid),
                                !.headers = insert(r.headers, HEADER, to_string(uuid))])
    /\ mwpc' = "returned"
    /\ UNCHANGED <<request_id, received, request, inner_response>>
    /\ UNCHANGED <<resolver_vars, storage, agg_vars, main_vars, reader, tls_vars>>
    /\ UNCHANGED <<start_vars, err_vars, dir_vars, unit_vars>>

NextMw == MwEnter \/ MwInner \/ MwExit

SpecMw == InitMw /\ [][NextMw]_vars

---------------------------------------------------------------------------
(* The error causes as a state machine: a cause is at hand and one of its  *)
(* methods is applied.                                                     *)

InitErr ==
    /\ cause \in Causes
    /\ err_out = None
    /\ storage = None
    /\ reader = None
    /\ ResolverIdle
    /\ AggIdle
    /\ MainIdle
    /\ TlsIdle
    /\ StartIdle
    /\ MwIdle
    /\ DirIdle
    /\ UnitIdle

ErrApply(op, out) ==
    /\ err_out' = Some([op |-> op, out |-> out])
    /\ UNCHANGED cause
    /\ UNCHANGED <<resolver_vars, storage, agg_vars, main_vars, reader, tls_vars>>
    /\ UNCHANGED <<start_vars, mw_vars, dir_vars, unit_vars>>

StatusCode == ErrApply("status_code", status_code(cause))

DetailsOf == ErrApply("details", details(cause))

Html == ErrApply("html", html(cause))

Display == ErrApply("fmt", fmt(cause))

IntoResponse == ErrApply("into_response", into_response(cause))

NextErr == StatusCode \/ DetailsOf \/ Html \/ Display \/ IntoResponse

SpecErr == InitErr /\ [][NextErr]_vars

---------------------------------------------------------------------------
(* The Dir provider as a state machine: a directory is given and           *)
(* get_certificates() is called on it.                                     *)

InitDir ==
    /\ dir_in \in Dirs
    /\ dir_out = None
    /\ storage = None
    /\ reader = None
    /\ ResolverIdle
    /\ AggIdle
    /\ MainIdle
    /\ TlsIdle
    /\ StartIdle
    /\ MwIdle
    /\ ErrIdle
    /\ UnitIdle

\* dir::Provider::get_certificates().
DirGetCertificates ==
    /\ dir_out' = Some(dir_get_certificates(dir_in))
    /\ UNCHANGED dir_in
    /\ UNCHANGED <<resolver_vars, storage, agg_vars, main_vars, reader, tls_vars>>
    /\ UNCHANGED <<start_vars, mw_vars, err_vars, unit_vars>>

NextDir == DirGetCertificates

SpecDir == InitDir /\ [][NextDir]_vars

---------------------------------------------------------------------------
(* WithVerify (tls/cert/providers/issuer/mod.rs): an importer wrapped with *)
(* a verifier.  The importer and the verifier are the type parameters T    *)
(* and V: the importer is given by what it returns, the verifier by the    *)
(* packages it rejects.                                                    *)

\* The longest package list the inner importer returns.
MaxPkgs == 3

PkgNames == {NA, NB, NW}

\* Verify::verify of the verifier at hand.
verify(pkg) ==
    IF pkg.name \in wv_in.rejects THEN Err("CommonNameMismatch") ELSE Ok("unit")

\* From<VerifyError> for Error.
VerificationError(e) == [kind |-> "VerificationError", source |-> e]

InitVerify ==
    /\ ResolverIdle
    /\ storage = None
    /\ reader = None
    /\ AggIdle
    /\ MainIdle
    /\ TlsIdle
    /\ StartIdle
    /\ MwIdle
    /\ ErrIdle
    /\ DirIdle
    /\ RlIdle
    /\ AuthIdle
    /\ ArIdle
    /\ \E inner \in {Err([kind |-> "UnexpectedError", source |-> "import"])}
                      \cup {Ok(p) : p \in SeqsUpTo({Pkg(n, PairA) : n \in PkgNames}, MaxPkgs)},
          rejects \in SUBSET {NB, NW} :
          wv_in = [inner |-> inner, rejects |-> rejects]
    /\ wvpc = "start"
    /\ imports = 0
    /\ verified = <<>>
    /\ wv_out = None

\* let pkgs = self.0.import().await?;
WvImport ==
    /\ wvpc = "start"
    /\ imports' = imports + 1
    /\ IF wv_in.inner.ok
          THEN /\ wvpc' = "verify"
               /\ wv_out' = wv_out
          ELSE /\ wvpc' = "done"
               /\ wv_out' = Some(Err(wv_in.inner.e))
    /\ UNCHANGED <<wv_in, verified>>
    /\ UNCHANGED <<resolver_vars, storage, agg_vars, main_vars, reader, tls_vars>>
    /\ UNCHANGED <<start_vars, mw_vars, err_vars, dir_vars, rl_vars, auth_vars, ar_vars>>

\* A loop step that calls the verifier and goes on whatever it answers.
WvVerify_ignore ==
    /\ wvpc = "verify"
    /\ Len(verified) < Len(wv_in.inner.v)
    /\ verified' = Append(verified, wv_in.inner.v[Len(verified) + 1])
    /\ UNCHANGED <<wv_in, wvpc, imports, wv_out>>
    /\ UNCHANGED <<resolver_vars, storage, agg_vars, main_vars, reader, tls_vars>>
    /\ UNCHANGED <<start_vars, mw_vars, err_vars, dir_vars, rl_vars, auth_vars, ar_vars>>

\* One pass of the loop: self.1.verify(pkg)?;
WvVerify ==
    /\ wvpc = "verify"
    /\ Len(verified) < Len(wv_in.inner.v)
    /\ LET pkg == wv_in.inner.v[Len(verified) + 1]
           r == verify(pkg)
       IN  /\ verified' = Append(verified, pkg)
           /\ IF r.ok
                 THEN /\ wvpc' = wvpc
                      /\ wv_out' = wv_out
                 ELSE /\ wvpc' = "done"
                      /\ wv_out' = Some(Err(VerificationError(r.e)))
    /\ UNCHANGED <<wv_in, imports>>
    /\ UNCHANGED <<resolver_vars, storage, agg_vars, main_vars, reader, tls_vars>>
    /\ UNCHANGED <<start_vars, mw_vars, err_vars, dir_vars, rl_vars, auth_vars, ar_vars>>

\* Ok(pkgs) after the loop.
WvReturn ==
    /\ wvpc = "verify"
    /\ Len(verified) = Len(wv_in.inner.v)
    /\ wvpc' = "done"
    /\ wv_out' = Some(Ok(wv_in.inner.v))
    /\ UNCHANGED <<wv_in, imports, verified>>
    /\ UNCHANGED <<resolver_vars, storage, agg_vars, main_vars, reader, tls_vars>>
    /\ UNCHANGED <<start_vars, mw_vars, err_vars, dir_vars, rl_vars, auth_vars, ar_vars>>

NextVerify == WvImport \/ WvVerify \/ WvReturn

SpecVerify == InitVerify /\ [][NextVerify]_vars

---------------------------------------------------------------------------
(* extract_authority applied to a request.                                 *)

InitAuth ==
    /\ ResolverIdle
    /\ storage = None
    /\ reader = None
    /\ AggIdle
    /\ MainIdle
    /\ TlsIdle
    /\ StartIdle
    /\ MwIdle
    /\ ErrIdle
    /\ DirIdle
    /\ WvIdle
    /\ RlIdle
    /\ ArIdle
    /\ auth_req \in AuthRequests
    /\ auth_out = None

ExtractAuthority ==
    /\ auth_out' = Some(extract_authority(auth_req))
    /\ UNCHANGED auth_req
    /\ UNCHANGED <<resolver_vars, storage, agg_vars, main_vars, reader, tls_vars>>
    /\ UNCHANGED <<start_vars, mw_vars, err_vars, dir_vars, wv_vars, rl_vars, ar_vars>>

NextAuth == ExtractAuthority

SpecAuth == InitAuth /\ [][NextAuth]_vars

---------------------------------------------------------------------------
(* The rate-limit middleware in front of a handler that answers 200.       *)

\* The requests sent to the middleware, and the ticks the clock is followed for.
MaxReqs == 4
MaxTime == 3

InitRl ==
    /\ ResolverIdle
    /\ storage = None
    /\ reader = None
    /\ AggIdle
    /\ MainIdle
    /\ TlsIdle
    /\ StartIdle
    /\ MwIdle
    /\ ErrIdle
    /\ DirIdle
    /\ WvIdle
    /\ AuthIdle
    /\ ArIdle
    /\ \E rps \in {1, 2}, b \in {1, 2} : rl_cfg = [rps |-> rps, burst_size |-> b]
    /\ clock = 0
    /\ tat = [k \in Ips |-> None]
    /\ rl_sent = <<>>

\* A request arrives: the key is extracted, the limiter is asked, and the request goes
\* to the handler or is answered with the error's response.
RlRequest ==
    /\ Len(rl_sent) < MaxReqs
    /\ \E conn \in Conns :
          LET key == extract(conn)
          IN  IF ~key.ok
                THEN /\ rl_sent' = Append(rl_sent, [at |-> clock, conn |-> conn,
                                                     status |-> as_response(key.e)])
                     /\ tat' = tat
                ELSE LET r == test_and_update(rl_cfg, tat[key.v], clock)
                     IN  IF r.ok
                           THEN /\ tat' = [tat EXCEPT ![key.v] = Some(r.v)]
                                /\ rl_sent' = Append(rl_sent, [at |-> clock, conn |-> conn,
                                                                status |-> 200])
                           ELSE /\ tat' = tat
                                /\ rl_sent' = Append(rl_sent,
                                                     [at |-> clock, conn |-> conn,
                                                      status |-> as_response(r.e)])
    /\ UNCHANGED <<rl_cfg, clock>>
    /\ UNCHANGED <<resolver_vars, storage, agg_vars, main_vars, reader, tls_vars>>
    /\ UNCHANGED <<start_vars, mw_vars, err_vars, dir_vars, wv_vars, auth_vars, ar_vars>>

\* Time passes.
RlTick ==
    /\ clock < MaxTime
    /\ clock' = clock + 1
    /\ UNCHANGED <<rl_cfg, tat, rl_sent>>
    /\ UNCHANGED <<resolver_vars, storage, agg_vars, main_vars, reader, tls_vars>>
    /\ UNCHANGED <<start_vars, mw_vars, err_vars, dir_vars, wv_vars, auth_vars, ar_vars>>

NextRl == RlRequest \/ RlTick

SpecRl == InitRl /\ [][NextRl]_vars

---------------------------------------------------------------------------
(* Scheduling: the runtime polls every spawned task, every provider call   *)
(* ends (its I/O is bounded by timeouts), and select! picks among its      *)
(* ready branches at random, so a branch that is ready again and again is  *)
(* eventually taken.                                                       *)

Fairness ==
    /\ SF_vars(AggExit)
    /\ WF_vars(AggFinish)
    /\ \A i \in DOMAIN Providers : WF_vars(ProviderDone(i))
    /\ \A s \in Servers : WF_vars(ServerExit(s))
    /\ WF_vars(MainStop)
    /\ WF_vars(MainStopped)
    /\ WF_vars(MainDone)

FairSpec == Init /\ [][NextLife]_vars /\ Fairness

\* The interval fires every period: while the aggregator waits at its select, the tick
\* branch becomes ready and, unless the loop has returned, is taken.
TickFairness == Fairness /\ WF_vars(AggTick)

FairTickSpec == Init /\ [][NextLife]_vars /\ TickFairness

---------------------------------------------------------------------------
(* Properties *)

\* Whether a SAN covers host h: exactly, or as the wildcard of h without its leftmost label.
Covers(san, h) ==
    \/ san = h
    \/ h # <<>> /\ san = <<LStar>> \o Tail(h)

RoundFailed == \E i \in DOMAIN Providers : ~Unwrap(provRes[i]).res.ok

\* C1: in a round in which some provider's get_certificates() returned an error (all of
\* them included), Aggregator::run does not call store, and the published snapshot and
\* custom-domain table after the round are those from before it.
C1_ErrorRoundDoesNotStore ==
    [][(aggpc = "fetching" /\ aggpc' = "select" /\ RoundFailed)
          => (nstore' = nstore /\ storage' = storage)]_vars

\* A second round in which every provider failed has ended, after a first that published.
C1_Witness ==
    /\ aggpc = "select"
    /\ round = 2
    /\ agg_log = "fetch_err"
    /\ \A i \in DOMAIN Providers : ~Unwrap(provRes[i]).res.ok
    /\ nstore = 1
    /\ IsSome(storage)

\* Both indices of a reference were built from its one record list.
OneRound(st) ==
    IsSome(st) =>
        /\ Unwrap(st).certs = build_certs(Unwrap(st).records)
        /\ Unwrap(st).canisters = build_canisters(Unwrap(st).records)

\* C2: the SAN index and the custom-domain table of the store's reference, and of every
\* reference a concurrent reader has loaded, were built from the record list of one and
\* the same provider round; after a publishing round that list is the round's flattened
\* list.
C2_SnapshotFromOneRound ==
    /\ OneRound(storage)
    /\ IsSome(reader) => OneRound(Unwrap(reader))
    /\ (aggpc = "select" /\ agg_log = "stored")
          => Unwrap(storage).records = fetch(RoundResults).v

\* A reader still holds the snapshot of an earlier round while the store holds a later
\* one with another custom-domain table.
C2_Witness ==
    /\ IsSome(reader)
    /\ IsSome(Unwrap(reader))
    /\ IsSome(storage)
    /\ Unwrap(Unwrap(reader)).canisters # Unwrap(storage).canisters
    /\ Unwrap(Unwrap(reader)).certs # Unwrap(storage).certs

Aliases == new_aliases(aliases_in, domains)

ResolvedBy(op) == IsSome(resolved) /\ Unwrap(resolved).op = op

\* C3: resolve_canister returns the result of the first of alias, canonical form and
\* custom domain that matches: the alias rule's result when it matches, whatever the
\* others give, and else the canonical rule's result when it matches, whatever the
\* custom-domain table holds.
C3_FirstRuleWins ==
    ResolvedBy("resolve_canister") =>
        LET out == Unwrap(resolved).out
            a == resolve_alias(Aliases, host)
            c == resolve_domain(domains, host)
        IN  /\ IsSome(a) => out = a
            /\ (~IsSome(a) /\ IsSome(c)) => out = c
            /\ (~IsSome(a) /\ ~IsSome(c) /\ IsSome(out))
                  => (Unwrap(out).domain = host /\ Unwrap(out).verify)

\* A host that all three rules match, each with another backend, resolved by the alias.
C3_Witness ==
    /\ ResolvedBy("resolve_canister")
    /\ IsSome(resolve_alias(Aliases, host))
    /\ IsSome(resolve_domain(domains, host))
    /\ IsSome(resolve_custom(storage, host))
    /\ Unwrap(resolve_alias(Aliases, host)).id # Unwrap(resolve_domain(domains, host)).id
    /\ Unwrap(resolve_custom(storage, host)).id # Unwrap(resolve_alias(Aliases, host)).id
    /\ Unwrap(resolved).out = resolve_alias(Aliases, host)

\* C4: resolve_canister(h) is none or a triple whose domain is a configured serving
\* domain or h itself.
C4_DomainServedOrHost ==
    (ResolvedBy("resolve_canister") /\ IsSome(Unwrap(resolved).out)) =>
        LET d == Unwrap(Unwrap(resolved).out).domain
        IN  \/ \E i \in DOMAIN domains : domains[i] = d
            \/ d = host

\* A host resolved through the custom-domain table to the host itself, which is no
\* serving domain; and a host below an alias resolved to the alias's serving domain.
C4_Witness ==
    /\ ResolvedBy("resolve_canister")
    /\ IsSome(Unwrap(resolved).out)
    /\ Unwrap(Unwrap(resolved).out).domain = host
    /\ ~\E i \in DOMAIN domains : domains[i] = host

\* C5: resolve_domain matches a host only if the labels after the id label and an
\* optional `raw` label right after it are exactly one serving domain; <id>.<extra
\* labels>.<serving domain> with further labels in between resolves to none.
C5_CanonicalExact ==
    (ResolvedBy("resolve_domain") /\ IsSome(Unwrap(resolved).out)) =>
        \E i \in DOMAIN domains :
            \/ host = <<host[1]>> \o domains[i]
            \/ host = <<host[1], LRaw>> \o domains[i]

\* <id>.ns.ic.io, two labels above the serving domain io and one above ic.io, with
\* ns.ic.io no serving domain: the canonical rule gives none.
C5_Witness ==
    /\ ResolvedBy("resolve_domain")
    /\ host = <<LId, LNs, LIc, LIo>>
    /\ domains = <<D1, D2>>
    /\ Unwrap(resolved).out = None

\* C6: every entry of the custom-domain table of a published snapshot has a record of the
\* same snapshot whose SAN set covers its hostname.
C6_CustomDomainCovered ==
    IsSome(storage) =>
        \A h \in DOMAIN Unwrap(storage).canisters :
            \E i \in DOMAIN Unwrap(storage).records :
                \E j \in DOMAIN Unwrap(storage).records[i].san :
                    Covers(Unwrap(storage).records[i].san[j], h)

CnMismatch(resp) ==
    resp.ok /\ \E k \in DOMAIN resp.pkgs : resp.pkgs[k].pair.cn # resp.pkgs[k].name

\* C7: when the issuer returned a package whose first certificate's commonName differs
\* from the package's name, the issuer provider's get_certificates() fails.
C7_CnMismatchFails ==
    \A i \in DOMAIN Providers :
        (Providers[i] = "issuer" /\ IsSome(provRes[i]) /\ CnMismatch(Unwrap(provRes[i]).input))
            => ~Unwrap(provRes[i]).res.ok

BothAnswer ==
    /\ IsSome(tls_out)
    /\ IsSome(Unwrap(tls_out).store)
    /\ IsSome(Unwrap(tls_out).acme)

\* C8 as stated: when the ACME resolver and the store-backed resolver both answer a
\* ClientHello, the certificate returned is the ACME resolver's.
C8_AcmeFirst ==
    BothAnswer =>
        /\ IsSome(Unwrap(tls_out).out)
        /\ Unwrap(Unwrap(tls_out).out).cert = Unwrap(Unwrap(tls_out).acme).cert

\* C8 as amended: the store-backed resolver is consulted before the ACME resolver; when
\* both answer a ClientHello the certificate returned is the store's (passed through the
\* stapler when one is set).
C8_StoreFirst ==
    BothAnswer =>
        /\ IsSome(Unwrap(tls_out).out)
        /\ Unwrap(Unwrap(tls_out).out).cert = Unwrap(Unwrap(tls_out).store).cert
        /\ Unwrap(Unwrap(tls_out).out).stapled = stapler_cfg

\* A hello both resolvers answer, the store by a wildcard SAN, has been resolved.
C8_Witness ==
    /\ BothAnswer
    /\ Unwrap(hello).sni = Some(<<LId, LIo>>)
    /\ Unwrap(Unwrap(tls_out).store).cert = "k1"
    /\ Unwrap(Unwrap(tls_out).out).cert = "k1"

AllReturned ==
    /\ aggpc = "returned"
    /\ agg_result = Some("Ok")
    /\ servers = {}
    /\ mainpc \in {"stopped", "done"}

\* C9: after the token is cancelled every supervised task eventually returns,
\* Aggregator::run with Ok(()), and TaskManager::stop() completes.
C9_CancelEndsTasks == token ~> AllReturned

\* The token was cancelled while the aggregator waited at its select, after a round, and
\* everything has returned.
C9_Witness ==
    /\ AllReturned
    /\ round = 1
    /\ mainpc = "stopped"

\* The records of this round's answers, as <<provider, index>> places.
Places == UNION {{<<i, a>> : a \in DOMAIN RoundResults[i].v} : i \in DOMAIN Providers}

Carries(pl, x) ==
    /\ \E j \in DOMAIN RoundResults[pl[1]].v[pl[2]].san :
          RoundResults[pl[1]].v[pl[2]].san[j] = x

Earlier(p, q) == p[1] < q[1] \/ (p[1] = q[1] /\ p[2] < q[2])

Overlaps ==
    {<<p, q, x>> \in Places \X Places \X DOMAIN Unwrap(storage).certs :
        Earlier(p, q) /\ Carries(p, x) /\ Carries(q, x)}

\* C10: when two records published in one round carry the same SAN x, lookup_sni(x)
\* returns the key of the one that is first in provider order and, within a provider, in
\* the order the provider returned them.
C10_EarlierRecordWins ==
    (aggpc = "select" /\ agg_log = "stored") =>
        \A o \in Overlaps :
            (\A r \in Places : Carries(r, o[3]) => ~Earlier(r, o[1]))
                => lookup_sni(storage, o[3]) = Some(RoundResults[o[1][1]].v[o[1][2]].cert)

\* The dir provider's k1 and the issuer's k2 both carry ns.io; the lookup gives k1.
C10_Witness ==
    /\ aggpc = "select"
    /\ agg_log = "stored"
    /\ Overlaps # {}
    /\ \E o \in Overlaps : o[1][1] # o[2][1]
    /\ lookup_sni(storage, NA) = Some("k1")

HasId == host # <<>> /\ IsSome(from_text(Last(split(host[1]))))

HostId == Unwrap(from_text(Last(split(host[1]))))

\* The verify flag of a canonical-form result is false exactly when the label right after
\* the id label is `raw`, and <id>.raw.<d> gives (id, d, false) for every serving domain d.
RawFlag ==
    LET out == Unwrap(resolved).out
    IN  /\ IsSome(out) => (~Unwrap(out).verify <=> (Len(host) >= 2 /\ host[2] = LRaw))
        /\ \A i \in DOMAIN domains :
              host = <<host[1], LRaw>> \o domains[i]
                  => out = Some([id |-> HostId, domain |-> domains[i], verify |-> FALSE])

\* C12 as stated: the verify flag of the canonical-form rule is false exactly when the
\* label after the id label is `raw`; <id>.raw.<d> gives (id, d, false) and <id>.<d>
\* gives (id, d, true) for every serving domain d.
C12_RawClearsVerify ==
    (ResolvedBy("resolve_domain") /\ HasId) =>
        /\ RawFlag
        /\ \A i \in DOMAIN domains :
              host = <<host[1]>> \o domains[i]
                  => Unwrap(resolved).out
                        = Some([id |-> HostId, domain |-> domains[i], verify |-> TRUE])

\* C12 as amended: the same, with <id>.<d> giving (id, d, true) for every serving domain
\* d whose leftmost label is not `raw`.
C12_RawClearsVerifyUnlessRawDomain ==
    (ResolvedBy("resolve_domain") /\ HasId) =>
        /\ RawFlag
        /\ \A i \in DOMAIN domains :
              (host = <<host[1]>> \o domains[i] /\ domains[i][1] # LRaw)
                  => Unwrap(resolved).out
                        = Some([id |-> HostId, domain |-> domains[i], verify |-> TRUE])

\* <id>.raw.ic.io resolved with ic.io a serving domain: verify is false.
C12_Witness ==
    /\ ResolvedBy("resolve_domain")
    /\ host = <<LId, LRaw>> \o D1
    /\ Unwrap(resolved).out = Some([id |-> "p1", domain |-> D1, verify |-> FALSE])

\* The <<alias index, domain index>> pairs whose alias.<domain> the host is a subdomain of.
AliasMatches ==
    {p \in (DOMAIN aliases_in) \X (DOMAIN domains) :
        is_subdomain_of(host, aliases_in[p[1]].name \o domains[p[2]])}

AliasEntry(p) ==
    Some([id |-> aliases_in[p[1]].id, domain |-> domains[p[2]], verify |-> TRUE])

\* C13 as stated: for every alias a:b and serving domain d, a.d and every subdomain of it
\* resolve by the alias rule to (b, d, true); a host under no a.d does not match.
C13_AliasCrossProduct ==
    ResolvedBy("resolve_alias") =>
        /\ \A p \in AliasMatches : Unwrap(resolved).out = AliasEntry(p)
        /\ AliasMatches = {} => Unwrap(resolved).out = None

\* C13 as amended: a host under some a.d resolves by the alias rule to (b, d, true) of
\* the first such pair, aliases in configured order and serving domains in configured
\* order within an alias; a host under no a.d does not match.
C13_AliasCrossProductFirst ==
    ResolvedBy("resolve_alias") =>
        /\ \A p \in AliasMatches :
              (\A q \in AliasMatches : ~Earlier(q, p)) => Unwrap(resolved).out = AliasEntry(p)
        /\ AliasMatches = {} => Unwrap(resolved).out = None

\* A subdomain of an alias under the second serving domain resolved to that domain.
C13_Witness ==
    /\ ResolvedBy("resolve_alias")
    /\ domains = <<D1, D2>>
    /\ host = <<LIc, LNs, LIo>>
    /\ Unwrap(resolved).out = Some([id |-> "p2", domain |-> D2, verify |-> TRUE])

\* C14: when neither the alias rule nor the canonical rule matches the host,
\* resolve_canister gives (b, host, true) if the custom-domain table of the current
\* snapshot maps exactly the host to b, and none otherwise.
C14_CustomExact ==
    [][(resolved' # None /\ Unwrap(resolved').op = "resolve_canister"
          /\ storage' = storage
          /\ ~IsSome(resolve_alias(Aliases, host))
          /\ ~IsSome(resolve_domain(domains, host)))
          => Unwrap(resolved').out =
                IF IsSome(storage) /\ host \in DOMAIN Unwrap(storage).canisters
                THEN Some([id |-> Unwrap(storage).canisters[host],
                           domain |-> host, verify |-> TRUE])
                ELSE None]_vars

\* ns.io resolved to none against a table that holds *.io, and ns.raw.ns against a
\* table that holds its parent raw.ns.
C14_Witness ==
    /\ ResolvedBy("resolve_canister")
    /\ host \in {<<LNs, LIo>>, <<LNs, LRaw, LNs>>}
    /\ domains = <<D1>>
    /\ IsSome(storage)
    /\ <<LStar, LIo>> \in DOMAIN Unwrap(storage).canisters
    /\ <<LRaw, LNs>> \in DOMAIN Unwrap(storage).canisters
    /\ Unwrap(resolved).out = None

\* The lists of the first n answers, one after the other.
RECURSIVE InProviderOrder(_, _)
InProviderOrder(answers, n) ==
    IF n = 0 THEN <<>> ELSE InProviderOrder(answers, n - 1) \o answers[n].v

\* C20: fetch returns the providers' records in provider order, each provider's in the
\* order it returned them, whatever order the calls completed in; a round whose providers
\* answer what they answered in the round before yields the same list.
C20_StableOrder ==
    [][(aggpc = "fetching" /\ aggpc' = "select" /\ IsSome(last_fetch')) =>
          LET now == Unwrap(last_fetch')
          IN  /\ now.list = InProviderOrder(now.answers, Len(Providers))
              /\ (IsSome(last_fetch) /\ Unwrap(last_fetch).answers = now.answers)
                    => now.list = Unwrap(last_fetch).list]_vars

\* A second round in which the issuer answered before the directory, both with the
\* records of the first round, has published.
C20_Witness ==
    /\ aggpc = "select"
    /\ round = 2
    /\ nstore = 2
    /\ agg_log = "stored"
    /\ done = <<2, 1>>
    /\ \A i \in DOMAIN Providers : Len(Unwrap(last_fetch).answers[i].v) >= 2
    /\ Unwrap(storage).records = Unwrap(last_fetch).list

\* C15: for a request passing through the request-id middleware, the x-request-id header
\* and the RequestId extension of the request handed to the inner handler, and those of
\* the response returned, all carry the one id generated for it, whatever x-request-id
\* the client sent and whatever the inner handler set on its response.
C15_OneRequestId ==
    /\ mwpc # "idle" =>
          /\ IsSome(request_id)
          /\ request.headers[HEADER] = <<to_string(Unwrap(request_id))>>
          /\ request.extensions = request_id
    /\ mwpc = "returned" =>
          /\ Unwrap(response).headers[HEADER] = <<to_string(Unwrap(request_id))>>
          /\ Unwrap(response).extensions = request_id
          /\ Unwrap(response).status = Unwrap(inner_response).status

\* The client sent an x-request-id of its own, the inner handler set another one and
\* another RequestId on its response, and the response has been returned.
C15_Witness ==
    /\ mwpc = "returned"
    /\ received.headers[HEADER] = <<"client">>
    /\ Unwrap(inner_response).headers[HEADER] = <<"inner">>
    /\ IsSome(Unwrap(inner_response).extensions)
    /\ Unwrap(inner_response).extensions # request_id

ErrBy(op) == IsSome(err_out) /\ Unwrap(err_out).op = op

\* The table of section 5 of the specification: error cause to HTTP status.
StatusTable(kind) ==
    CASE kind = "UnableToReadBody" -> 408
      [] kind \in {"LoadShed", "RateLimited"} -> 429
      [] kind = "RequestTooLarge" -> 413
      [] kind \in {"IncorrectPrincipal", "MalformedRequest", "NoAuthority", "UnknownDomain",
                    "CanisterIdNotFound"} -> 400
      [] kind = "DomainCanisterMismatch" -> 403
      [] kind = "Denylisted" -> 451
      [] kind \in {"BackendErrorDNS", "BackendErrorConnect", "BackendTLSErrorOther",
                    "BackendTLSErrorCert"} -> 503
      [] kind \in {"BackendTimeout", "AgentError", "Other"} -> 500

\* C16: status_code gives every error cause the status of the specification's table, and
\* into_response answers with that status.
C16_StatusTable ==
    /\ ErrBy("status_code") => Unwrap(err_out).out = StatusTable(cause.kind)
    /\ ErrBy("into_response") => Unwrap(err_out).out.status = StatusTable(cause.kind)

\* BackendTLSErrorCert, with a detail, has been given 503.
C16_Witness ==
    /\ ErrBy("status_code")
    /\ cause = With("BackendTLSErrorCert", "connection reset")
    /\ Unwrap(err_out).out = 503

\* The words of each variant's name.
KindWords(kind) ==
    CASE kind = "Other" -> <<"Other">>
      [] kind = "UnableToReadBody" -> <<"Unable", "To", "Read", "Body">>
      [] kind = "LoadShed" -> <<"Load", "Shed">>
      [] kind = "RequestTooLarge" -> <<"Request", "Too", "Large">>
      [] kind = "IncorrectPrincipal" -> <<"Incorrect", "Principal">>
      [] kind = "MalformedRequest" -> <<"Malformed", "Request">>
      [] kind = "NoAuthority" -> <<"No", "Authority">>
      [] kind = "UnknownDomain" -> <<"Unknown", "Domain">>
      [] kind = "CanisterIdNotFound" -> <<"Canister", "Id", "Not", "Found">>
      [] kind = "AgentError" -> <<"Agent", "Error">>
      [] kind = "DomainCanisterMismatch" -> <<"Domain", "Canister", "Mismatch">>
      [] kind = "Denylisted" -> <<"Denylisted">>
      [] kind = "BackendErrorDNS" -> <<"Backend", "Error", "DNS">>
      [] kind = "BackendErrorConnect" -> <<"Backend", "Error", "Connect">>
      [] kind = "BackendTimeout" -> <<"Backend", "Timeout">>
      [] kind = "BackendTLSErrorOther" -> <<"Backend", "TLS", "Error", "Other">>
      [] kind = "BackendTLSErrorCert" -> <<"Backend", "TLS", "Error", "Cert">>
      [] kind = "RateLimited" -> <<"Rate", "Limited">>

Lower(word) ==
    CASE word = "Other" -> "other" [] word = "Unable" -> "unable" [] word = "To" -> "to"
      [] word = "Read" -> "read" [] word = "Body" -> "body" [] word = "Load" -> "load"
      [] word = "Shed" -> "shed" [] word = "Request" -> "request" [] word = "Too" -> "too"
      [] word = "Large" -> "large" [] word = "Incorrect" -> "incorrect"
      [] word = "Principal" -> "principal" [] word = "Malformed" -> "malformed"
      [] word = "No" -> "no" [] word = "Authority" -> "authority"
      [] word = "Unknown" -> "unknown" [] word = "Domain" -> "domain"
      [] word = "Canister" -> "canister" [] word = "Id" -> "id" [] word = "Not" -> "not"
      [] word = "Found" -> "found" [] word = "Agent" -> "agent" [] word = "Error" -> "error"
      [] word = "Mismatch" -> "mismatch" [] word = "Denylisted" -> "denylisted"
      [] word = "Backend" -> "backend" [] word = "DNS" -> "dns"
      [] word = "Connect" -> "connect" [] word = "Timeout" -> "timeout"
      [] word = "TLS" -> "tls" [] word = "Cert" -> "cert" [] word = "Rate" -> "rate"
      [] word = "Limited" -> "limited" [] word = "Normal" -> "normal"

\* snake_case: the words in lower case, joined by underscores.
RECURSIVE SnakeCase(_)
SnakeCase(words) ==
    IF Len(words) = 1 THEN Lower(words[1])
    ELSE Lower(words[1]) \o "_" \o SnakeCase(Tail(words))

\* The detail of a cause: the String it carries, the name of the RateLimitCause it
\* carries, "Overloaded" for LoadShed, and none for the other causes.
Detail(c) ==
    IF c.kind = "LoadShed" THEN Some("Overloaded")
    ELSE IF c.kind = "RateLimited" THEN Some(SnakeCase(<<Unwrap(c.payload)>>))
    ELSE c.payload

\* The body of a cause that is not Denylisted, for a given name of its kind.
TextBody(name, c) ==
    IF IsSome(Detail(c)) THEN name \o ": " \o Unwrap(Detail(c)) \o "\n" ELSE name

\* C17 as stated: for every cause other than Denylisted the body of into_response is
\* "<kind>: <detail>\n" when the cause has a detail and "<kind>" when it has none, <kind>
\* being the snake_case form of the cause's kind; for Denylisted the body is the bundled
\* page (a final line break allowed) and the content type is text/html.
C17_BodySnakeCaseKind ==
    ErrBy("into_response") =>
        LET r == Unwrap(err_out).out
        IN  IF cause.kind = "Denylisted"
            THEN r.body \in {PAGE_451, PAGE_451 \o "\n"} /\ r.content_type = CONTENT_TYPE_HTML
            ELSE r.body = TextBody(SnakeCase(KindWords(cause.kind)), cause)

\* The name into_response writes for a kind: its snake_case form, but general_error for
\* Other, backend_tls_error for BackendTLSErrorOther and rate_limited_<cause> for
\* RateLimited.
WrittenName(c) ==
    CASE c.kind = "Other" -> "general_error"
      [] c.kind = "BackendTLSErrorOther" -> "backend_tls_error"
      [] c.kind = "RateLimited" -> "rate_limited_normal"
      [] OTHER -> SnakeCase(KindWords(c.kind))

\* C17 as amended: the same with <kind> the cause's Display string, which is the
\* snake_case form of the kind except for Other, BackendTLSErrorOther and RateLimited;
\* for Denylisted the body is the bundled page followed by a line break, with content
\* type text/html; charset=utf-8.
C17_BodyDisplayName ==
    ErrBy("into_response") =>
        LET r == Unwrap(err_out).out
        IN  IF cause.kind = "Denylisted"
            THEN r.body = PAGE_451 \o "\n" /\ r.content_type = CONTENT_TYPE_HTML
            ELSE /\ r.body = TextBody(WrittenName(cause), cause)
                 /\ r.content_type # CONTENT_TYPE_HTML

\* A cause with a detail and one without have been turned into responses.
C17_Witness ==
    /\ ErrBy("into_response")
    /\ \/ /\ cause = With("MalformedRequest", "connection reset")
          /\ Unwrap(err_out).out.body = "malformed_request: connection reset\n"
       \/ /\ cause = Unit("NoAuthority")
          /\ Unwrap(err_out).out.body = "no_authority"

\* A regular file whose name ends in .pem, in whatever case.
IsPemFile(e) == e.is_file /\ e.ext \in {Some("pem"), Some("PEM"), Some("Pem")}

\* A .pem file that cannot be loaded: it or its key cannot be read, or the pair does not
\* parse, or its certificate has no SAN.
Malformed(e) ==
    IsPemFile(e) /\ (~e.readable \/ ~e.key_readable \/ ~e.pair.valid \/ e.pair.san = <<>>)

PemEntries == SelectSeq(dir_in.entries, IsPemFile)

\* C19: the Dir provider is all-or-nothing: with one .pem entry whose key cannot be read
\* or whose pair does not parse, get_certificates() is an error and returns no record;
\* otherwise it returns one record per .pem file, in directory order, the entries that
\* are no regular file or no .pem being skipped without error.
C19_DirAllOrNothing ==
    (IsSome(dir_out) /\ dir_in.readable) =>
        LET out == Unwrap(dir_out)
        IN  IF \E i \in DOMAIN dir_in.entries : Malformed(dir_in.entries[i])
            THEN ~out.ok /\ DOMAIN out = {"ok", "e"}
            ELSE /\ out.ok
                 /\ out.v = [k \in DOMAIN PemEntries |->
                                [san |-> PemEntries[k].pair.san,
                                 cert |-> PemEntries[k].pair.key,
                                 custom |-> None]]

\* A loadable pair followed by one that does not parse: the call is an error.
C19_Witness ==
    /\ IsSome(dir_out)
    /\ dir_in.entries = <<File(PairA), File(PairBad)>>
    /\ ~Unwrap(dir_out).ok

\* The command line names no serving domain, or neither ACME nor a certificate provider.
FatalCli ==
    \/ cli.domain = <<>> /\ cli.domain_system = <<>> /\ cli.domain_app = <<>>
    \/ ~cli.acme_challenge /\ cli.dir = <<>> /\ cli.issuer_urls = <<>>

\* C18: when no serving domain is configured, or neither an ACME resolver nor a
\* certificate provider, main returns an error and never reaches tasks.start: no task is
\* spawned.
C18_FatalStartupSpawnsNothing ==
    /\ FatalCli =>
          /\ spawned = {}
          /\ mainpc \notin {"start", "running"}
          /\ mainpc = "returned" => ~Unwrap(main_result).ok
    /\ (IsSome(main_result) /\ ~Unwrap(main_result).ok) => spawned = {}

\* Serving domains are configured but no certificate source: main has returned the error
\* of tls::setup.
C18_Witness ==
    /\ FatalCli
    /\ cli.domain # <<>>
    /\ mainpc = "returned"
    /\ main_result = Some(Err("unable to setup TLS"))
    /\ spawned = {}


---------------------------------------------------------------------------
(* C21 *)

\* The part of a label after its last occurrence of "--" (the label itself without one).
AfterFinalDashes(l) ==
    LET at == {i \in 1..(Len(l) - 1) : l[i] = "-" /\ l[i + 1] = "-"}
    IN  IF at = {} THEN l
        ELSE SubSeq(l, (CHOOSE i \in at : \A j \in at : j <= i) + 2, Len(l))

\* C21: the candidate id of the canonical-form rule is the part of the first label after
\* its final "--": a host p--<id>.<rest> resolves as <id>.<rest> does, for every prefix p,
\* and a first label whose candidate is no principal makes the rule fall through.
C21_PrefixedIdResolvesAsId ==
    ResolvedBy("resolve_domain") =>
        LET candidate == AfterFinalDashes(host[1])
        IN  /\ Unwrap(resolved).out = resolve_domain(domains, <<candidate>> \o Tail(host))
            /\ ~IsSome(from_text(candidate)) => Unwrap(resolved).out = None

---------------------------------------------------------------------------
(* C30 *)

\* C30: when the host lies under more than one alias.<domain>, the alias rule returns the
\* entry that comes first in table order (aliases in configured order, serving domains in
\* configured order within an alias), whichever of the matching aliases is longest.
C30_FirstTableEntryWins ==
    (ResolvedBy("resolve_alias") /\ Cardinality(AliasMatches) > 1) =>
        \E p \in AliasMatches :
            /\ \A q \in AliasMatches : q = p \/ Earlier(p, q)
            /\ Unwrap(resolved).out = AliasEntry(p)

\* ic.ns.io lies under the aliases ns and ic.ns; ns is listed first and wins, though
\* ic.ns is the longer match.
C30_Witness ==
    /\ ResolvedBy("resolve_alias")
    /\ aliases_in = <<ANs, AIcNs>>
    /\ host = <<LIc, LNs>> \o D2
    /\ Cardinality(AliasMatches) > 1
    /\ Unwrap(resolved).out = Some([id |-> "p2", domain |-> D2, verify |-> TRUE])


---------------------------------------------------------------------------
(* C22 *)

\* The positions of the imported packages the verifier rejects.
Rejected == {k \in DOMAIN wv_in.inner.v : wv_in.inner.v[k].name \in wv_in.rejects}

\* C22: WithVerify calls the inner importer once and hands the packages to the verifier
\* in order; it returns all the packages when every one verifies; at the first package
\* that fails it returns a VerificationError, without verifying the rest; an error of the
\* inner importer is returned as it is, without a call to the verifier.
C22_VerifyAllOrFirstError ==
    /\ imports <= 1
    /\ wv_in.inner.ok => verified = SubSeq(wv_in.inner.v, 1, Len(verified))
    /\ wvpc = "done" =>
          /\ imports = 1
          /\ ~wv_in.inner.ok =>
                /\ verified = <<>>
                /\ wv_out = Some(wv_in.inner)
          /\ (wv_in.inner.ok /\ Rejected = {}) =>
                /\ verified = wv_in.inner.v
                /\ wv_out = Some(Ok(wv_in.inner.v))
          /\ (wv_in.inner.ok /\ Rejected # {}) =>
                /\ verified = SubSeq(wv_in.inner.v, 1, Min(Rejected))
                /\ ~Unwrap(wv_out).ok
                /\ Unwrap(wv_out).e.kind = "VerificationError"

\* Three packages imported, the second rejected: two calls of the verifier, an error.
C22_Witness ==
    /\ wvpc = "done"
    /\ wv_in.inner.ok
    /\ Len(wv_in.inner.v) = 3
    /\ Min(Rejected) = 2
    /\ Len(verified) = 2
    /\ ~Unwrap(wv_out).ok


---------------------------------------------------------------------------
(* C25 *)

\* The requests of one client IP, as positions of rl_sent.
SentBy(ip) == {i \in DOMAIN rl_sent : rl_sent[i].conn = Some(ip)}

\* 1/r seconds in ticks, rounded up.
SecondsPerRequest == (TicksPerSecond + rl_cfg.rps - 1) \div rl_cfg.rps

\* C25: with burst b and rate r per second, keyed by the client IP of the connection
\* info: of the requests a client sends back to back from its first one, the first b
\* pass and the next ones get 429; the client's next request after a 429, sent 1/r
\* seconds or more later, passes; a request without connection info gets 500.
C25_BurstThen429 ==
    /\ \A i \in DOMAIN rl_sent : rl_sent[i].conn = None => rl_sent[i].status = 500
    /\ \A ip \in Ips :
          \A i \in SentBy(ip) :
              LET before == {j \in SentBy(ip) : j < i}
              IN  /\ (\A j \in before : rl_sent[j].at = rl_sent[i].at) =>
                        rl_sent[i].status
                            = IF Cardinality(before) < rl_cfg.burst_size THEN 200 ELSE 429
                  /\ \A j \in before :
                        (/\ \A k \in before : k <= j
                         /\ rl_sent[j].status = 429
                         /\ rl_sent[i].at >= rl_sent[j].at + SecondsPerRequest)
                            => rl_sent[i].status = 200

\* Burst 2: two requests of a client pass, its third at the same instant gets 429, its
\* fourth, 1/r seconds later, passes.
C25_Witness ==
    /\ rl_cfg.burst_size = 2
    /\ Len(rl_sent) = 4
    /\ \A i \in 1..4 : rl_sent[i].conn = Some("ip1")
    /\ \A i \in 1..3 : rl_sent[i].at = 0
    /\ rl_sent[4].at = SecondsPerRequest
    /\ <<rl_sent[1].status, rl_sent[2].status, rl_sent[3].status, rl_sent[4].status>>
           = <<200, 200, 429, 200>>


---------------------------------------------------------------------------
(* C23 *)

\* The text up to the first ':' of x, the whole of x when it has none.
UpToColon(x) ==
    LET at == {i \in DOMAIN x : x[i] = ":"}
    IN  IF at = {} THEN x ELSE SubSeq(x, 1, Min(at) - 1)

\* The FQDN a text parses to, as an Option.
Parsed(x) == IF FQDN_from_str(x).ok THEN Some(FQDN_from_str(x).v) ELSE None

\* C23: extract_authority takes the host of the URI's authority when the URI has one and
\* the Host header otherwise, cuts it at the first ':' and parses it as an FQDN; it gives
\* none when neither is there or the text does not parse, and does not turn to the Host
\* header when the URI's authority is there but does not parse.
C23_AuthorityThenHost ==
    IsSome(auth_out) =>
        LET out == Unwrap(auth_out)
            uri == auth_req.authority
            hdr == auth_req.host_header
        IN  /\ IsSome(uri) => out = Parsed(UpToColon(uri_host(Unwrap(uri))))
            /\ (~IsSome(uri) /\ IsSome(hdr) /\ to_str(Unwrap(hdr)).ok)
                   => out = Parsed(UpToColon(Unwrap(hdr)))
            /\ (~IsSome(uri) /\ IsSome(hdr) /\ ~to_str(Unwrap(hdr)).ok) => out = None
            /\ (~IsSome(uri) /\ ~IsSome(hdr)) => out = None

\* A URI authority that is no FQDN beside a Host header that is one: none.
C23_Witness ==
    /\ auth_req.authority = Some(<<"f", "_", "o">>)
    /\ auth_req.host_header = Some(<<"o", ".", "b">>)
    /\ auth_out = Some(None)


---------------------------------------------------------------------------
(* C29 *)

\* The resolvers of the list that answer with a certificate.
Hits == {i \in DOMAIN ar_in.resolvers : IsSome(ar_in.resolvers[i])}

Staplings == {k \in DOMAIN ar_calls : ar_calls[k].fn = "staple"}

\* C29: the resolvers are consulted in registration order and none after the first that
\* answers; when one of them answered, resolve returns its certificate passed through
\* the stapler exactly once when a stapler is set, and unchanged when none is; when
\* nothing matched, resolve returns none without a call to the stapler.
C29_StapleOnceFirstHit ==
    /\ \A k \in Consulted : ar_calls[k].who = k
    /\ \A k \in Consulted : \A i \in Hits : ar_calls[k].who <= i
    /\ arpc = "done" =>
          /\ Hits # {} =>
                /\ Cardinality(Consulted) = Min(Hits)
                /\ Unwrap(ar_out)
                      = Some([Unwrap(ar_in.resolvers[Min(Hits)])
                                EXCEPT !.stapled = ar_in.stapler])
                /\ Cardinality(Staplings) = IF ar_in.stapler THEN 1 ELSE 0
          /\ Unwrap(ar_out) = None => Staplings = {}
          /\ (Hits = {} /\ (~IsSome(ar_in.rustls) \/ ~IsSome(Unwrap(ar_in.rustls))))
                => Unwrap(ar_out) = None /\ Cardinality(Consulted) = Len(ar_in.resolvers)
          /\ Unwrap(ar_out)
                = resolve(ar_in.resolvers,
                          IF IsSome(ar_in.rustls) THEN Unwrap(ar_in.rustls) ELSE None,
                          ar_in.stapler)

\* Three resolvers, the second and the third with a certificate, a stapler set: two
\* resolvers consulted, the second's certificate stapled once.
C29_Witness ==
    /\ arpc = "done"
    /\ ar_in.stapler
    /\ Hits = {2, 3}
    /\ ar_in.resolvers[2] # ar_in.resolvers[3]
    /\ Cardinality(Consulted) = 2
    /\ Cardinality(Staplings) = 1
    /\ Unwrap(ar_out) = Some(staple(Unwrap(ar_in.resolvers[2])))


---------------------------------------------------------------------------
(* C28 *)

\* The host matches the alias rule or the canonical-form rule.
MatchesFixedRule ==
    \/ IsSome(resolve_alias(Aliases, host))
    \/ IsSome(resolve_domain(domains, host))

\* C28: the alias table and the serving domains never change, and a publish of a
\* snapshot leaves resolve_canister(h) as it was for every host h that matches the alias
\* rule or the canonical-form rule: while such a host is resolved again and again, with
\* snapshots published in between, the answer stays the same.
C28_PublishFrame ==
    [][/\ domains' = domains
       /\ aliases_in' = aliases_in
       /\ (MatchesFixedRule /\ ResolvedBy("resolve_canister")
              /\ IsSome(resolved') /\ Unwrap(resolved').op = "resolve_canister")
             => Unwrap(resolved').out = Unwrap(resolved).out
       /\ (MatchesFixedRule /\ storage' # storage /\ ResolvedBy("resolve_canister"))
             => resolve_canister(Aliases, domains, storage', host) = Unwrap(resolved).out
      ]_vars

\* A host that matches the alias rule and is also a name of the published custom-domain
\* table, resolved by the alias rule.
C28_Witness ==
    /\ ResolvedBy("resolve_canister")
    /\ IsSome(resolve_alias(Aliases, host))
    /\ IsSome(storage)
    /\ host \in DOMAIN Unwrap(storage).canisters
    /\ Unwrap(resolved).out = resolve_alias(Aliases, host)
    /\ Unwrap(resolved).out # resolve_custom(storage, host)


---------------------------------------------------------------------------
(* C24 *)

---------------------------------------------------------------------------
(* C26 *)

\* C26: once the token is cancelled and the aggregator is at its select, the only step the
\* aggregator takes is to return: it starts no round and publishes no snapshot.
C26_NoRoundAfterCancel ==
    [][(token /\ aggpc = "select") =>
          /\ aggpc' \in {"select", "returned"}
          /\ round' = round
          /\ storage' = storage]_vars


---------------------------------------------------------------------------
(* C27 *)

\* Every provider has answered this round, with success and a list that is not empty.
GoodRound ==
    /\ aggpc = "fetching"
    /\ \A i \in DOMAIN Providers :
          /\ IsSome(provRes[i])
          /\ Unwrap(provRes[i]).res.ok
          /\ Unwrap(provRes[i]).res.v # <<>>

\* The snapshot built from this round's answers is the published one.
Published ==
    /\ aggpc \in {"select", "returned"}
    /\ agg_log = "stored"
    /\ IsSome(storage)
    /\ Unwrap(storage).records
          = flatten([i \in DOMAIN Providers |-> Unwrap(provRes[i]).res.v])

\* C27: run returns only once the token is cancelled; a round ends back at the select
\* whether its fetch or its store failed or not; while the token is not cancelled the
\* next tick starts a fresh round; and a round in which every provider succeeds with a
\* list that is not empty publishes the snapshot built from these lists.
C27_OnlyCancelEndsLoop ==
    /\ [](aggpc = "returned" => token)
    /\ [][(aggpc = "fetching" /\ aggpc' # "fetching") => aggpc' = "select"]_vars
    /\ (~token /\ aggpc = "select" /\ round < MaxRounds) ~> (token \/ aggpc = "fetching")
    /\ GoodRound ~> Published

\* A first round that stored nothing, then a second round whose snapshot is published,
\* the token not cancelled.
C27_Witness ==
    /\ ~token
    /\ round = 2
    /\ nstore = 1
    /\ Published
    /\ \A i \in DOMAIN Providers : Unwrap(provRes[i]).res.v # <<>>

=============================================================================
